---- MODULE Spec2Model ----
(***************************************************************************)
(* chirp_web: the radio clone engine (js/serial.js RadioClone), the         *)
(* protocol descriptor registry (js/radio-defs.js) and the session wrappers *)
(* of the application (js/app.js doRadioDownload / doRadioUpload).          *)
(*                                                                         *)
(* One behaviour is one clone session: a radio model and a direction are    *)
(* selected, the port is requested, the handshake of the descriptor runs,   *)
(* blocks are read or written, the connection is closed.  The radio is the  *)
(* environment: every read of the transport returns some byte sequence no   *)
(* longer than the length asked for (serial.js:217).                        *)
(***************************************************************************)
EXTENDS Integers, Sequences, FiniteSets, TLC

(***************************************************************************)
(* Bounds.  Block sizes, addresses, commands and handshake literals are the *)
(* registry's; only the number of blocks of each memory region is scaled.   *)
(***************************************************************************)
MainBlocks == 2
AuxBlocks == 2
RegionBlocks == 1

(***************************************************************************)
(* Byte helpers                                                            *)
(***************************************************************************)
RECURSIVE XorBits(_, _, _)
XorBits(a, b, n) ==
    IF n = 0 THEN 0
    ELSE (((a % 2) + (b % 2)) % 2) + (2 * XorBits(a \div 2, b \div 2, n - 1))

\* a ^ b on bytes
Xor(a, b) == XorBits(a, b, 8)

Min(a, b) == IF a < b THEN a ELSE b
Max(a, b) == IF a > b THEN a ELSE b

\* Uint8Array.slice(from, to) with 0-based half-open indices, clamped
Slice(s, from, to) ==
    LET t == Min(to, Len(s)) IN
    IF from >= t THEN << >> ELSE SubSeq(s, from + 1, t)

(***************************************************************************)
(* Obfuscation primitives                                                  *)
(***************************************************************************)
ENCRYPT_SYMBOLS ==
    << <<66, 72, 84, 32>>, <<67, 79, 32, 55>>, <<65, 32, 69, 83>>,
       <<32, 69, 73, 89>>, <<77, 32, 80, 81>>, <<88, 78, 32, 89>>,
       <<82, 86, 66, 32>>, <<32, 72, 81, 80>>, <<87, 32, 82, 67>>,
       <<77, 83, 32, 78>>, <<32, 83, 65, 84>>, <<75, 32, 68, 72>>,
       <<90, 79, 32, 82>>, <<67, 32, 83, 76>>, <<54, 82, 66, 32>>,
       <<32, 74, 67, 71>>, <<80, 78, 32, 86>>, <<74, 32, 80, 75>>,
       <<69, 75, 32, 76>>, <<73, 32, 76, 90>> >>

\* variant: the keyed XOR without the test for the inverse of the key byte
decryptUV17ProNoInverseTest(buf, symbolIndex) ==
    LET symbols == ENCRYPT_SYMBOLS[symbolIndex + 1] IN
    [i \in 1..Len(buf) |->
        LET keyByte == symbols[((i - 1) % 4) + 1]
            dataByte == buf[i]
        IN IF keyByte # 32 /\ dataByte \notin {0, 255, keyByte}
           THEN Xor(dataByte, keyByte) ELSE dataByte]

\* symbolIndex is 0-based in the source
decryptUV17Pro(buf, symbolIndex) ==
    LET symbols == ENCRYPT_SYMBOLS[symbolIndex + 1] IN
    [i \in 1..Len(buf) |->
        LET keyByte == symbols[((i - 1) % 4) + 1]
            dataByte == buf[i]
            shouldEncrypt == /\ keyByte # 32
                             /\ dataByte # 0
                             /\ dataByte # 255
                             /\ dataByte # keyByte
                             /\ dataByte # Xor(keyByte, 255)
        IN IF shouldEncrypt THEN Xor(dataByte, keyByte) ELSE dataByte]

encryptUV17Pro(buf, symbolIndex) == decryptUV17Pro(buf, symbolIndex)

RECURSIVE WouxunForward(_, _, _)
\* result[0] = valxor ^ data[0]; result[i] = result[i-1] ^ data[i]
WouxunForward(d, prev, i) ==
    IF i > Len(d) THEN << >>
    ELSE LET o == Xor(prev, d[i]) IN <<o>> \o WouxunForward(d, o, i + 1)

wouxunCrypt(d, valxor, decrypt) ==
    IF decrypt
    THEN [i \in 1..Len(d) |->
             IF i = 1 THEN Xor(d[1], valxor) ELSE Xor(d[i], d[i - 1])]
    ELSE WouxunForward(d, valxor, 1)

(***************************************************************************)
(* Checksum methods.  A read past the end of the data is undefined in the   *)
(* source: -1 here for a byte compared, and a sum that meets one restarts   *)
(* at 0 ((cs + undefined) & 0xFF is 0).                                     *)
(***************************************************************************)
\* cs = startOffset; for each byte: cs = (cs + byte) & 0xFF
checksumSum(d, startOffset) ==
    LET RECURSIVE sum(_, _)
        sum(i, cs) == IF i > Len(d) THEN cs ELSE sum(i + 1, (cs + d[i]) % 256)
    IN sum(1, startOffset)

\* cs ^= byte for each byte; cs & 0xFF
checksumXor(d) ==
    LET RECURSIVE fold(_, _)
        fold(i, cs) == IF i > Len(d) THEN cs ELSE fold(i + 1, Xor(cs, d[i]))
    IN fold(1, 0)

\* for (i = start; i <= stop; i++) cs = (cs + data[i]) & 0xFF; indexes 0-based
yaesuChecksum(d, start, stop) ==
    LET RECURSIVE sum(_, _)
        sum(i, cs) == IF i > stop THEN cs
                      ELSE IF i + 1 > Len(d) THEN sum(i + 1, 0)
                      ELSE sum(i + 1, (cs + d[i + 1]) % 256)
    IN sum(start, 0)

\* options: [offset, start, stop, address], offset 0 when left out
verifyChecksum(d, checksumType, options) ==
    LET last == IF Len(d) = 0 THEN -1 ELSE d[Len(d)]
        body == Slice(d, 0, Len(d) - 1)
    IN CASE checksumType = "sum" -> last = checksumSum(body, options.offset)
         [] checksumType = "xor" -> last = checksumXor(body)
         [] checksumType = "yaesu" ->
                (IF options.address < Len(d) THEN d[options.address + 1] ELSE -1)
                    = yaesuChecksum(d, options.start, options.stop)
         [] OTHER -> TRUE

\* new Uint8Array([...data, cs]) for sum and xor, the data itself otherwise
addChecksum(d, checksumType, options) ==
    CASE checksumType = "sum" ->
             Append(d, checksumSum(d, options.offset) % 256)
      [] checksumType = "xor" -> Append(d, checksumXor(d))
      [] OTHER -> d

(***************************************************************************)
(* Protocol descriptor registry (RADIO_PROTOCOLS).  A field the registry    *)
(* leaves out (undefined in the source) is written -1 for a byte, 0 for a   *)
(* length or address, << >> for a list and "undefined" for a flag.          *)
(***************************************************************************)
NoHandshake ==
    [type |-> "none", magic |-> << >>, magicSequences |-> << >>,
     expectAck |-> -1, identCmd |-> << >>, identLength |-> 0,
     ackAfterIdent |-> "undefined", preCmd |-> << >>, programCmd |-> << >>,
     maxAckRetries |-> 0, identPrefix |-> << >>, idents |-> << >>,
     fingerprint |-> << >>, magics |-> << >>]

NoEncryption == [type |-> "none", symbolIndex |-> -1, valxor |-> -1]

NoLayout ==
    [headerSize |-> 0, mainStart |-> 0, mainEnd |-> 0, auxStart |-> 0,
     auxEnd |-> 0, regions |-> << >>, totalSize |-> 0]

PROGRAM == <<80, 82, 79, 71, 82, 65, 77>>

RADIO_PROTOCOLS ==
    [name \in {"baofeng-uv5r", "baofeng-uvb5", "h777", "btech",
               "baofeng-uv17pro", "wouxun-kguv", "retevis-rt98", "generic"} |->
     CASE name = "baofeng-uv5r" ->
          [handshake |-> [NoHandshake EXCEPT
                !.type = "magic", !.magic = <<80, 187, 255, 32, 18, 7, 37>>,
                !.expectAck = 6, !.identCmd = <<2>>, !.identLength = 8],
           read |-> [cmd |-> 83, responseCmd |-> 88, blockSize |-> 64,
                     ackAfterBlock |-> TRUE, ackByte |-> 6,
                     skipHeaderValidation |-> FALSE],
           write |-> [cmd |-> 88, blockSize |-> 16, expectAck |-> 6],
           memoryLayout |-> [NoLayout EXCEPT
                !.headerSize = 8, !.mainEnd = MainBlocks * 64,
                !.auxStart = 7872, !.auxEnd = 7872 + AuxBlocks * 64],
           encryption |-> NoEncryption,
           memoryFormat |->
               {"channelSize", "numChannels", "startOffset", "nameOffset",
                "nameSize", "fields", "flagMappings", "emptyCheck"}]
       [] name = "baofeng-uvb5" ->
          [handshake |-> [NoHandshake EXCEPT
                !.type = "program", !.programCmd = <<5>> \o PROGRAM,
                !.expectAck = 6, !.maxAckRetries = 10, !.identCmd = <<2>>,
                !.identLength = 8, !.identPrefix = <<72, 75, 84, 53, 49, 49>>,
                !.ackAfterIdent = "true"],
           read |-> [cmd |-> 82, responseCmd |-> 87, blockSize |-> 16,
                     ackAfterBlock |-> TRUE, ackByte |-> 6,
                     skipHeaderValidation |-> FALSE],
           write |-> [cmd |-> 87, blockSize |-> 16, expectAck |-> 6],
           memoryLayout |-> [NoLayout EXCEPT
                !.headerSize = 48, !.mainEnd = MainBlocks * 16],
           encryption |-> NoEncryption, memoryFormat |-> {}]
       [] name = "h777" ->
          [handshake |-> [NoHandshake EXCEPT
                !.type = "program", !.preCmd = <<2>>, !.programCmd = PROGRAM,
                !.expectAck = 6, !.identCmd = <<2>>, !.identLength = 8],
           read |-> [cmd |-> 82, responseCmd |-> -1, blockSize |-> 8,
                     ackAfterBlock |-> TRUE, ackByte |-> 6,
                     skipHeaderValidation |-> FALSE],
           write |-> [cmd |-> 87, blockSize |-> 8, expectAck |-> 6],
           memoryLayout |-> [NoLayout EXCEPT !.mainEnd = MainBlocks * 8],
           encryption |-> NoEncryption,
           memoryFormat |->
               {"channelSize", "numChannels", "startOffset", "fields",
                "emptyCheck", "defaults"}]
       [] name = "btech" ->
          [handshake |-> [NoHandshake EXCEPT
                !.type = "magic", !.magic = <<85, 32, 21, 9, 32, 69, 77, 2>>,
                !.expectAck = 6, !.identLength = 50],
           read |-> [cmd |-> 83, responseCmd |-> -1, blockSize |-> 64,
                     ackAfterBlock |-> FALSE, ackByte |-> 0,
                     skipHeaderValidation |-> FALSE],
           write |-> [cmd |-> 88, blockSize |-> 16, expectAck |-> 6],
           memoryLayout |-> [NoLayout EXCEPT !.mainEnd = (MainBlocks + 2) * 64],
           encryption |-> NoEncryption, memoryFormat |-> {}]
       [] name = "baofeng-uv17pro" ->
          [handshake |-> [NoHandshake EXCEPT
                !.type = "uv17pro",
                !.idents = << PROGRAM \o <<66, 70, 53, 82, 84, 69, 67, 72, 85>> >>,
                !.fingerprint = <<6>>,
                !.magics = << [cmd |-> <<70>>, responseLen |-> 16],
                              [cmd |-> <<77>>, responseLen |-> 6],
                              [cmd |-> <<83, 69, 78, 68, 18, 13, 10, 10, 16, 3,
                                         13, 2, 17, 12, 18, 10, 17, 6, 4, 14,
                                         2, 9, 13, 0, 0>>, responseLen |-> 1] >>],
           read |-> [cmd |-> 82, responseCmd |-> 82, blockSize |-> 64,
                     ackAfterBlock |-> FALSE, ackByte |-> 0,
                     skipHeaderValidation |-> TRUE],
           write |-> [cmd |-> 87, blockSize |-> 64, expectAck |-> 6],
           memoryLayout |-> [NoLayout EXCEPT
                !.regions = << [start |-> 0, size |-> (RegionBlocks + 1) * 64],
                               [start |-> 36864, size |-> 64],
                               [start |-> 40960, size |-> RegionBlocks * 64],
                               [start |-> 53248, size |-> 64] >>,
                !.totalSize = (2 * RegionBlocks + 3) * 64],
           encryption |-> [type |-> "uv17pro", symbolIndex |-> 1, valxor |-> -1],
           memoryFormat |->
               {"channelSize", "numChannels", "startOffset", "fields",
                "flagMappings", "emptyCheck"}]
       [] name = "wouxun-kguv" ->
          [handshake |-> [NoHandshake EXCEPT
                !.type = "wouxun", !.identCmd = <<128>>, !.identLength = 32],
           read |-> [cmd |-> 130, responseCmd |-> -1, blockSize |-> 64,
                     ackAfterBlock |-> FALSE, ackByte |-> 0,
                     skipHeaderValidation |-> FALSE],
           write |-> [cmd |-> 129, blockSize |-> 16, expectAck |-> 6],
           memoryLayout |-> [NoLayout EXCEPT !.mainEnd = MainBlocks * 64],
           encryption |-> [type |-> "wouxun", symbolIndex |-> -1, valxor |-> 87],
           memoryFormat |-> {}]
       [] name = "retevis-rt98" ->
          [handshake |-> [NoHandshake EXCEPT
                !.type = "program", !.programCmd = PROGRAM,
                !.expectAck = 6, !.identCmd = <<2>>, !.identLength = 8],
           read |-> [cmd |-> 82, responseCmd |-> -1, blockSize |-> 16,
                     ackAfterBlock |-> TRUE, ackByte |-> 6,
                     skipHeaderValidation |-> FALSE],
           write |-> [cmd |-> 87, blockSize |-> 16, expectAck |-> 6],
           memoryLayout |-> [NoLayout EXCEPT !.mainEnd = MainBlocks * 16],
           encryption |-> NoEncryption, memoryFormat |-> {}]
       [] OTHER ->
          [handshake |-> NoHandshake,
           read |-> [cmd |-> 82, responseCmd |-> -1, blockSize |-> 64,
                     ackAfterBlock |-> FALSE, ackByte |-> 0,
                     skipHeaderValidation |-> FALSE],
           write |-> [cmd |-> 87, blockSize |-> 64, expectAck |-> 6],
           memoryLayout |-> [NoLayout EXCEPT !.mainEnd = MainBlocks * 64],
           encryption |-> NoEncryption, memoryFormat |-> {}]]

(***************************************************************************)
(* Radio models (RADIO_MODELS): one model per protocol family and per kind  *)
(* of override.  A field a model does not override is << >> or -1.          *)
(***************************************************************************)
NoOverride ==
    [magic |-> << >>, magicSequences |-> << >>, idents |-> << >>,
     magics |-> << >>, symbolIndex |-> -1]

Radios ==
    {"uv5r", "bff8hp", "uvb5", "bf888s", "uv2501", "uv17pro", "bff8hppro",
     "kguv8d", "rt98", "md380"}

RADIO_MODELS ==
    [m \in Radios |->
     CASE m = "uv5r" ->
          [protocol |-> "baofeng-uv5r", memSize |-> MainBlocks * 64 + 8,
           override |-> NoOverride]
       [] m = "bff8hp" ->
          [protocol |-> "baofeng-uv5r", memSize |-> MainBlocks * 64 + 8,
           override |-> [NoOverride EXCEPT !.magicSequences =
                << <<80, 187, 255, 32, 18, 7, 37>>,
                   <<80, 187, 255, 32, 20, 4, 19>> >>]]
       [] m = "uvb5" ->
          [protocol |-> "baofeng-uvb5", memSize |-> MainBlocks * 16,
           override |-> NoOverride]
       [] m = "bf888s" ->
          [protocol |-> "h777", memSize |-> MainBlocks * 8 + 32,
           override |-> NoOverride]
       [] m = "uv2501" ->
          [protocol |-> "btech", memSize |-> MainBlocks * 64,
           override |-> NoOverride]
       [] m = "uv17pro" ->
          [protocol |-> "baofeng-uv17pro",
           memSize |-> (2 * RegionBlocks + 3) * 64,
           override |-> [NoOverride EXCEPT
                !.idents = << PROGRAM \o <<67, 79, 76, 79, 82, 80, 82, 79, 85>> >>,
                !.magics = << [cmd |-> <<70>>, responseLen |-> 16],
                              [cmd |-> <<77>>, responseLen |-> 7],
                              [cmd |-> <<83, 69, 78, 68, 33, 5, 13, 1, 1, 1, 4,
                                         17, 8, 5, 13, 13, 1, 17, 15, 9, 18,
                                         9, 16, 4, 0>>, responseLen |-> 1] >>]]
       [] m = "bff8hppro" ->
          [protocol |-> "baofeng-uv17pro",
           memSize |-> (2 * RegionBlocks + 3) * 64,
           override |-> [NoOverride EXCEPT !.symbolIndex = 3]]
       [] m = "kguv8d" ->
          [protocol |-> "wouxun-kguv", memSize |-> 4 * MainBlocks * 64,
           override |-> NoOverride]
       [] m = "rt98" ->
          [protocol |-> "retevis-rt98", memSize |-> MainBlocks * 16,
           override |-> NoOverride]
       [] OTHER ->
          [protocol |-> "generic", memSize |-> 32 * MainBlocks * 64,
           override |-> NoOverride]]

\* Object.assign of the model's overrides onto a copy of the protocol
getRadioProtocol(m) ==
    LET modelDef == RADIO_MODELS[m]
        base == RADIO_PROTOCOLS[modelDef.protocol]
        o == modelDef.override
        hs0 == base.handshake
        hs1 == IF hs0.type # "none"
               THEN [hs0 EXCEPT
                     !.magic = IF o.magic # << >> THEN o.magic ELSE @,
                     !.magicSequences =
                         IF o.magicSequences # << >> THEN o.magicSequences ELSE @,
                     !.idents = IF o.idents # << >> THEN o.idents ELSE @,
                     !.magics = IF o.magics # << >> THEN o.magics ELSE @]
               ELSE hs0
        enc == IF o.symbolIndex # -1 /\ base.encryption.type # "none"
               THEN [base.encryption EXCEPT !.symbolIndex = o.symbolIndex]
               ELSE base.encryption
    IN [base EXCEPT !.handshake = hs1, !.encryption = enc]
       @@ [memSize |-> modelDef.memSize, modelDef |-> modelDef]

(***************************************************************************)
(* The memory format an upload serializes with.  A format is modelled by   *)
(* the set of its top-level keys; the empty set stands for no format.      *)
(***************************************************************************)
\* defaultFormats[protocolName] || null
getDefaultMemoryFormat(protocolName) ==
    CASE protocolName = "baofeng-uv17pro" ->
             {"channelSize", "numChannels", "startOffset", "fields",
              "flagMappings", "emptyCheck"}
      [] protocolName = "baofeng-uv5r" ->
             {"channelSize", "numChannels", "startOffset", "nameOffset",
              "nameSize", "fields", "flagMappings", "emptyCheck"}
      [] protocolName = "h777" ->
             {"channelSize", "numChannels", "startOffset", "fields",
              "emptyCheck", "defaults"}
      [] OTHER -> {}

\* serializeRadioMemory: protocol?.memoryFormat, else the fallback format of
\* protocolName (protocol.modelDef.protocol in doRadioUpload)
serializeRadioMemory(p) ==
    IF p.memoryFormat # {} THEN p.memoryFormat
    ELSE getDefaultMemoryFormat(p.modelDef.protocol)

(***************************************************************************)
(* The radio (environment).  What the radio holds at an address is fixed    *)
(* by a pattern; the patterns mix bytes the keyed XOR changes with bytes it *)
(* leaves alone (0x00, 0xFF, key bytes).                                    *)
(***************************************************************************)
Patterns == {0, 1}

ByteCycle == <<65, 0, 37, 255, 86, 79, 188>>

\* the byte the radio sends for memory address a
WireByte(p, a) == ByteCycle[((a + 3 * p) % Len(ByteCycle)) + 1]

WireBlock(p, addr, size) == [i \in 1..size |-> WireByte(p, addr + i - 1)]

\* identification responses of a radio; the first one ends with 0xDD
RadioIdents ==
    { <<170, 48, 118, 4, 0, 5, 32, 221>>,
      <<170, 187, 204, 221, 238, 255, 17, 221>> }

(***************************************************************************)
(* State                                                                   *)
(***************************************************************************)
VARIABLES
    radio,          \* the model selected in the radio dialog
    protocol,       \* RadioClone.protocol: the descriptor the session resolved
    op,             \* "download" | "upload" (radioDialogMode)
    pat,            \* what the radio's memory holds (environment)
    rident,         \* the identification the radio sends (environment)
    pc,             \* the await the session is suspended at
    connection,     \* app.serialConnection: "none" | "open" | "closed"
    aborted,        \* RadioClone.aborted
    identification, \* RadioClone.identification
    buffer,         \* downloadBlocks: the image under construction
    data,           \* upload: the image to write
    io,             \* every frame written, every block-level read (history)
    idx,            \* seqIndex / retry i / ident index / magic index
    got,            \* identResponse length attempt / bytesRead / dataOffset
    region,         \* multi-region: region index; single: 1 main, 2 aux
    offset,         \* block address of the loop
    chunk,          \* identResponse, or the block read and not yet appended
    progress,       \* last progress event
    outcome,        \* how the session ended
    lastAck,        \* the last reply read by a handshake ACK loop (history)
    abortPhase      \* when abort() was called: "no" | "handshake" | "blocks"

\* the memory editor's state (app.currentImage and the codec around it)
VARIABLES
    cformat,        \* name of the memory-format descriptor in use
    raw,            \* currentImage._rawData: the image as read
    memories,       \* the Memory objects parseMemoryGeneric returned
    edited,         \* location saved by the edit dialog, 0 when none was
    result,         \* what serializeMemoryGeneric returned
    reparsed,       \* the Memory objects decoded from result
    cpc             \* "idle" | "raw" | "parsed" | "serialized" | "reparsed"

codecVars == <<cformat, raw, memories, edited, result, reparsed, cpc>>

\* the parts of the program taken on their own: the obfuscation and
\* checksum methods applied to a buffer, and SerialConnection.read on a port
VARIABLES
    calc,           \* [method, input, options, output, final, valid, step]
    serial,         \* [length, buf, returned, sent, step]: the read in
                    \* progress (length asked, bytes buffered), what the reads
                    \* returned so far, and how many bytes the port delivered;
                    \* the k-th byte the port delivers has the value k
    app,            \* the App around two radio operations s = 1, 2:
                    \* [serialConnection, at, conn, clone, ports, wire];
                    \* serialConnection is 0 (null) or s, the SerialConnection
                    \* operation s created; conn[s] = [port, connected] are
                    \* that object's fields; clone[s] is the connection the
                    \* RadioClone of s was given; ports[p] is the state of
                    \* serial port p; wire lists the frames exchanged
    currentImage    \* the RadioImage of the editor: [memoryBounds, memories,
                    \* before, last]; memories is the Map from location to
                    \* Memory (its domain is the set of keys), before is
                    \* that Map as the last call found it and last is that
                    \* call: [op, memory, from, to, error], memory a list
                    \* of no or one Memory

unitVars == <<calc, serial, app, currentImage>>

\* no method has been called, no read has been made
UnitsIdle ==
    /\ calc = [method |-> "", input |-> << >>,
               options |-> [symbolIndex |-> 0, valxor |-> 0, offset |-> 0,
                            start |-> 0, stop |-> 0, address |-> 0],
               output |-> << >>, final |-> << >>, valid |-> FALSE,
               step |-> "idle"]
    /\ serial = [length |-> 0, buf |-> << >>, returned |-> << >>, sent |-> 0,
                 step |-> "closed"]
    /\ app = [serialConnection |-> 0,
              at |-> [s \in 1..2 |-> "idle"],
              conn |-> [s \in 1..2 |-> [port |-> 0, connected |-> FALSE]],
              clone |-> [s \in 1..2 |-> 0],
              ports |-> [q \in 1..2 |-> "closed"],
              wire |-> << >>]
    /\ currentImage = [memoryBounds |-> <<1, 0>>, memories |-> << >>,
                       before |-> << >>,
                       last |-> [op |-> "", memory |-> << >>, from |-> 0,
                                 to |-> 0, error |-> FALSE]]

vars == <<protocol, radio, op, pat, rident, pc, connection, aborted, identification,
          buffer, data, io, idx, got, region, offset, chunk, progress, outcome,
          lastAck, abortPhase, codecVars, unitVars>>

\* no image is open in the editor
CodecIdle ==
    /\ cformat = ""
    /\ raw = << >>
    /\ memories = << >>
    /\ edited = 0
    /\ result = << >>
    /\ reparsed = << >>
    /\ cpc = "idle"

W(kind, bytes) == [dir |-> "w", kind |-> kind, bytes |-> bytes, want |-> 0]
R(kind, bytes, n) == [dir |-> "r", kind |-> kind, bytes |-> bytes, want |-> n]

NoOutcome == [kind |-> "none", msg |-> "", address |-> -1]

\* number of header bytes a download of this model prepends to the image
HeaderLen(p) ==
    IF p.handshake.type \in {"magic", "program"} /\ p.handshake.identCmd # << >>
    THEN IF p.memoryLayout.headerSize # 0
         THEN Min(8, p.memoryLayout.headerSize) ELSE 8
    ELSE 0

\* length of the image a complete download of this model returns
ImageLen(p) ==
    LET l == p.memoryLayout IN
    IF l.regions # << >> THEN l.totalSize
    ELSE HeaderLen(p) + (Min(l.mainEnd, p.memSize) - l.mainStart)
         + (IF l.auxStart # 0 /\ l.auxEnd # 0 THEN l.auxEnd - l.auxStart ELSE 0)

Init ==
    /\ radio \in Radios
    /\ protocol = getRadioProtocol(radio)
    /\ op \in {"download", "upload"}
    /\ pat \in Patterns
    /\ rident \in RadioIdents
    /\ (getRadioProtocol(radio).handshake.identCmd = << >>
          \/ getRadioProtocol(radio).handshake.type \notin {"magic", "program"})
       => rident = <<170, 48, 118, 4, 0, 5, 32, 221>>
    /\ pc = "idle"
    /\ connection = "none"
    /\ aborted = FALSE
    /\ identification = [set |-> FALSE, bytes |-> << >>]
    /\ buffer = << >>
    /\ data = IF op = "upload"
              THEN [i \in 1..ImageLen(getRadioProtocol(radio)) |-> WireByte(pat, i)]
              ELSE << >>
    /\ io = << >>
    /\ idx = 0
    /\ got = 0
    /\ region = 0
    /\ offset = 0
    /\ chunk = << >>
    /\ progress = [message |-> "", percent |-> 0]
    /\ outcome = NoOutcome
    /\ lastAck = << >>
    /\ abortPhase = "no"
    /\ CodecIdle
    /\ UnitsIdle

\* an error thrown out of download()/upload(): caught by the session wrapper
Throw(msg, address) ==
    /\ outcome' = [kind |-> "error", msg |-> msg, address |-> address]
    /\ pc' = "finally"

(***************************************************************************)
(* Session wrapper: doRadioDownload / doRadioUpload                        *)
(***************************************************************************)
\* confirm(), requestPort(), open(), setSignals(), new RadioClone, setRadio
RequestPort ==
    /\ pc = "idle"
    /\ \E granted \in BOOLEAN :
         IF granted
         THEN /\ connection' = "open"
              /\ pc' = "start"
              /\ outcome' = outcome
         ELSE /\ connection' = "none"
              /\ pc' = "finally"
              /\ outcome' = [NoOutcome EXCEPT !.kind = "port_cancelled"]
    /\ UNCHANGED <<unitVars, codecVars, protocol, radio, op, pat, rident, aborted, identification, buffer,
                   data, io, idx, got, region, offset, chunk, progress>>
    /\ UNCHANGED <<lastAck, abortPhase>>

\* the finally block: close the connection
Finally ==
    /\ pc = "finally"
    /\ connection' = "closed"
    /\ pc' = "done"
    /\ UNCHANGED <<unitVars, codecVars, protocol, radio, op, pat, rident, aborted, identification, buffer,
                   data, io, idx, got, region, offset, chunk, progress, outcome>>
    /\ UNCHANGED <<lastAck, abortPhase>>

\* RadioClone.abort(), callable whenever the session is suspended at an await
Abort ==
    /\ pc \notin {"idle", "start", "finally", "done"}
    /\ ~aborted
    /\ aborted' = TRUE
    /\ abortPhase' = IF pc \in {"rd_header", "rd_data", "rd_skip", "rd_delay",
                                "wr_ack"}
                     THEN "blocks" ELSE "handshake"
    /\ UNCHANGED <<unitVars, codecVars, protocol, radio, op, pat, rident, pc, connection, identification,
                   buffer, data, io, idx, got, region, offset, chunk, progress,
                   outcome, lastAck>>

\* download() / upload() up to the first await: reset the flag, pick the
\* handshake branch of performHandshake
Start ==
    /\ pc = "start"
    /\ aborted' = FALSE
    /\ progress' = [message |-> "Starting", percent |-> 0]
    /\ pc' = CASE protocol.handshake.type = "none" -> "blocks"
               [] protocol.handshake.type = "magic" -> "magic_send"
               [] protocol.handshake.type = "program" -> "program_send"
               [] protocol.handshake.type = "uv17pro" -> "uv_send"
               [] OTHER -> "hs_other"
    /\ UNCHANGED <<unitVars, codecVars, protocol, radio, op, pat, rident, connection, identification, buffer,
                   data, io, idx, got, region, offset, chunk, outcome>>
    /\ UNCHANGED <<lastAck, abortPhase>>

(***************************************************************************)
(* performHandshake                                                        *)
(***************************************************************************)
\* what a one-byte read can return: ACK, another byte (NAK), nothing (timeout)
AckReplies == { <<6>>, <<21>>, << >> }

\* hs.magicSequences || [hs.magic]
MagicSequences(hs) ==
    IF hs.magicSequences # << >> THEN hs.magicSequences ELSE <<hs.magic>>

\* variant: any byte counts as the ACK
AckMatchesAny(ack, expectAck) == Len(ack) > 0

\* ack.length > 0 && ack[0] === expectAck
AckMatches(ack, expectAck) == Len(ack) > 0 /\ ack[1] = expectAck

\* hs.ackAfterIdent !== false (magic branch)
AckAfterIdentMagic(hs) == hs.ackAfterIdent # "false"

\* hs.ackAfterIdent truthy (program branch)
AckAfterIdentProgram(hs) == hs.ackAfterIdent = "true"

HandshakeDone ==
    /\ progress' = [message |-> "Handshake complete", percent |-> 10]
    /\ pc' = "blocks"

\* magic branch: drain, then the candidate's bytes one write each
HsMagicSend ==
    /\ pc = "magic_send"
    /\ LET magic == MagicSequences(protocol.handshake)[idx + 1] IN
       io' = io \o [i \in 1..Len(magic) |-> W("magic", <<magic[i]>>)]
    /\ pc' = "magic_ack"
    /\ UNCHANGED <<unitVars, codecVars, protocol, radio, op, pat, rident, connection, aborted, identification,
                   buffer, data, idx, got, region, offset, chunk, progress,
                   outcome>>
    /\ UNCHANGED <<lastAck, abortPhase>>

\* magic branch: read(1, 3000) and the rest of the candidate loop
HsMagicAck ==
    /\ pc = "magic_ack"
    /\ \E ack \in AckReplies :
         LET hs == protocol.handshake IN
         /\ lastAck' = ack
         /\ IF AckMatches(ack, hs.expectAck)
            THEN /\ idx' = 0
                 /\ chunk' = << >>
                 /\ outcome' = outcome
                 /\ IF hs.identCmd # << >>
                    THEN /\ io' = Append(io, W("identCmd", hs.identCmd))
                         /\ pc' = "ident_byte"
                         /\ progress' = [message |-> "Handshake acknowledged",
                                         percent |-> 8]
                    ELSE /\ io' = io
                         /\ HandshakeDone
            ELSE /\ UNCHANGED <<io, chunk, progress>>
                 /\ IF idx + 1 < Len(MagicSequences(hs))
                    THEN /\ idx' = idx + 1
                         /\ pc' = "magic_send"
                         /\ outcome' = outcome
                    ELSE /\ idx' = idx
                         /\ Throw("handshake_not_acknowledged", -1)
    /\ UNCHANGED <<unitVars, codecVars, protocol, radio, op, pat, rident, connection, aborted, identification,
                   buffer, data, got, region, offset>>
    /\ UNCHANGED abortPhase

\* magic branch: one iteration of the byte-by-byte identification read, and
\* what follows the loop when it ends
HsIdentByte ==
    /\ pc = "ident_byte"
    /\ \E byte \in (IF Len(chunk) < Len(rident)
                    THEN { <<rident[Len(chunk) + 1]>>, << >> } ELSE { << >> }) :
         LET hs == protocol.handshake
             maxIdent == IF hs.identLength # 0 THEN hs.identLength ELSE 12
             identResponse == chunk \o byte
             ends == (byte = <<221>>) \/ (idx + 1 >= maxIdent)
         IN
         IF ~ends
         THEN /\ chunk' = identResponse
              /\ idx' = idx + 1
              /\ UNCHANGED <<pc, io, identification, progress, outcome>>
         ELSE /\ idx' = 0
              /\ chunk' = << >>
              /\ IF Len(identResponse) < 8
                 THEN /\ Throw("identification_short", -1)
                      /\ UNCHANGED <<io, identification, progress>>
                 ELSE /\ identification' = [set |-> TRUE, bytes |-> identResponse]
                      /\ outcome' = outcome
                      /\ IF AckAfterIdentMagic(hs)
                         THEN /\ io' = Append(io, W("identAck", <<6>>))
                              /\ pc' = "ident_ack"
                              /\ progress' = progress
                         ELSE /\ io' = io
                              /\ HandshakeDone
    /\ UNCHANGED <<unitVars, codecVars, protocol, radio, op, pat, rident, connection, aborted, buffer, data,
                   got, region, offset>>
    /\ UNCHANGED <<lastAck, abortPhase>>

\* magic branch: the byte read after the identification ACK is discarded
HsIdentAck ==
    /\ pc = "ident_ack"
    /\ \E ackResponse \in AckReplies : HandshakeDone
    /\ UNCHANGED <<unitVars, codecVars, protocol, radio, op, pat, rident, connection, aborted, identification,
                   buffer, data, io, idx, got, region, offset, chunk, outcome>>
    /\ UNCHANGED <<lastAck, abortPhase>>

\* program branch: optional pre-command, then the program phrase
HsProgramSend ==
    /\ pc = "program_send"
    /\ LET hs == protocol.handshake IN
       io' = io \o (IF hs.preCmd # << >> THEN <<W("preCmd", hs.preCmd)>> ELSE << >>)
                \o <<W("programCmd", hs.programCmd)>>
    /\ pc' = "program_ack"
    /\ idx' = 0
    /\ UNCHANGED <<unitVars, codecVars, protocol, radio, op, pat, rident, connection, aborted, identification,
                   buffer, data, got, region, offset, chunk, progress, outcome>>
    /\ UNCHANGED <<lastAck, abortPhase>>

\* variant: one window more than the descriptor allows
MaxAckRetriesPlusOne(hs) == hs.maxAckRetries + 1

\* hs.maxAckRetries || 1
MaxAckRetries(hs) == IF hs.maxAckRetries # 0 THEN hs.maxAckRetries ELSE 1

\* program branch: one read(1, 500) window of the ACK loop
HsProgramAck ==
    /\ pc = "program_ack"
    /\ \E ack \in AckReplies :
         LET hs == protocol.handshake
             maxRetries == MaxAckRetries(hs)
         IN
         /\ lastAck' = ack
         /\ IF AckMatches(ack, hs.expectAck)
            THEN /\ idx' = 0
                 /\ outcome' = outcome
                 /\ IF hs.identCmd # << >>
                    THEN /\ io' = Append(io, W("identCmd", hs.identCmd))
                         /\ pc' = "program_ident"
                         /\ progress' = [message |-> "Program mode entered",
                                         percent |-> 8]
                    ELSE /\ io' = io
                         /\ HandshakeDone
            ELSE /\ UNCHANGED <<io, progress>>
                 /\ IF idx + 1 < maxRetries
                    THEN /\ idx' = idx + 1
                         /\ UNCHANGED <<pc, outcome>>
                    ELSE /\ idx' = idx
                         /\ Throw("program_not_acknowledged", -1)
    /\ UNCHANGED <<unitVars, codecVars, protocol, radio, op, pat, rident, connection, aborted, identification,
                   buffer, data, got, region, offset, chunk>>
    /\ UNCHANGED abortPhase

\* program branch: read(identLength || 8, 2000); a prefix mismatch only warns
HsProgramIdent ==
    /\ pc = "program_ident"
    /\ \E n \in {0, 3, Len(rident)} :
         LET hs == protocol.handshake
             want == IF hs.identLength # 0 THEN hs.identLength ELSE 8
             identResponse == Slice(rident, 0, Min(n, want))
         IN
         IF AckAfterIdentProgram(hs)
         THEN /\ io' = Append(io, W("identAck", <<6>>))
              /\ chunk' = identResponse
              /\ pc' = "program_ident_ack"
              /\ UNCHANGED <<identification, progress>>
         ELSE /\ io' = io
              /\ chunk' = << >>
              /\ identification' = [set |-> TRUE, bytes |-> identResponse]
              /\ HandshakeDone
    /\ UNCHANGED <<unitVars, codecVars, protocol, radio, op, pat, rident, connection, aborted, buffer, data,
                   idx, got, region, offset, outcome>>
    /\ UNCHANGED <<lastAck, abortPhase>>

\* program branch: read(1, 500) after the identification ACK, result unused
HsProgramIdentAck ==
    /\ pc = "program_ident_ack"
    /\ \E ackResponse \in AckReplies :
         /\ identification' = [set |-> TRUE, bytes |-> chunk]
         /\ chunk' = << >>
         /\ HandshakeDone
    /\ UNCHANGED <<unitVars, codecVars, protocol, radio, op, pat, rident, connection, aborted, buffer, data,
                   io, idx, got, region, offset, outcome>>
    /\ UNCHANGED <<lastAck, abortPhase>>

\* uv17pro branch: drain, write the candidate ident as one frame
HsUvSend ==
    /\ pc = "uv_send"
    /\ io' = Append(io, W("uvIdent", protocol.handshake.idents[idx + 1]))
    /\ got' = 0
    /\ pc' = "uv_poll"
    /\ UNCHANGED <<unitVars, codecVars, protocol, radio, op, pat, rident, connection, aborted, identification,
                   buffer, data, idx, region, offset, chunk, progress, outcome>>
    /\ UNCHANGED <<lastAck, abortPhase>>

\* variant: any response passes for the fingerprint
FingerprintMatchesAny(response, fingerprint) == TRUE

\* response.length >= fingerprint.length && fingerprint.every(b == response[i])
FingerprintMatches(response, fingerprint) ==
    /\ Len(response) >= Len(fingerprint)
    /\ \A i \in 1..Len(fingerprint) : response[i] = fingerprint[i]

\* uv17pro branch: one read(1, 500) of the ten polls, then the fingerprint
\* check and the first follow-up command
HsUvPoll ==
    /\ pc = "uv_poll"
    /\ \E response \in AckReplies :
         LET hs == protocol.handshake IN
         /\ lastAck' = response
         /\ IF response = << >> /\ got + 1 < 10
            THEN /\ got' = got + 1
                 /\ UNCHANGED <<pc, io, idx, progress, outcome>>
            ELSE /\ got' = 0
                 /\ IF response # << >> /\ FingerprintMatches(response, hs.fingerprint)
                    THEN /\ idx' = 0
                         /\ outcome' = outcome
                         /\ IF hs.magics # << >>
                            THEN /\ io' = Append(io, W("uvMagic", hs.magics[1].cmd))
                                 /\ pc' = "uv_magic"
                                 /\ progress' = [message |-> "Ident acknowledged",
                                                 percent |-> 7]
                            ELSE /\ io' = io
                                 /\ HandshakeDone
                    ELSE /\ UNCHANGED <<io, progress>>
                         /\ IF idx + 1 < Len(hs.idents)
                            THEN /\ idx' = idx + 1
                                 /\ pc' = "uv_send"
                                 /\ outcome' = outcome
                            ELSE /\ idx' = idx
                                 /\ Throw("identification_no_response", -1)
    /\ UNCHANGED <<unitVars, codecVars, protocol, radio, op, pat, rident, connection, aborted, identification,
                   buffer, data, region, offset, chunk>>
    /\ UNCHANGED abortPhase

\* what the radio can answer to read(responseLen, 2000): that many bytes,
\* or nothing before the timeout
MagicReplies(responseLen) ==
    { [i \in 1..responseLen |-> 0], << >> }

\* uv17pro branch: read the follow-up's response (unchecked), delay, then
\* write the next follow-up command
HsUvMagic ==
    /\ pc = "uv_magic"
    /\ LET hs == protocol.handshake
           responseLen == hs.magics[idx + 1].responseLen
       IN
       \E response \in MagicReplies(responseLen) :
         LET afterRead == IF responseLen > 0
                          THEN Append(io, R("uvMagicResp", response, responseLen))
                          ELSE io
         IN
         IF idx + 1 < Len(hs.magics)
         THEN /\ io' = Append(afterRead, W("uvMagic", hs.magics[idx + 2].cmd))
              /\ idx' = idx + 1
              /\ UNCHANGED <<pc, progress>>
         ELSE /\ io' = afterRead
              /\ idx' = 0
              /\ HandshakeDone
    /\ UNCHANGED <<unitVars, codecVars, protocol, radio, op, pat, rident, connection, aborted, identification,
                   buffer, data, got, region, offset, chunk, outcome>>
    /\ UNCHANGED <<lastAck, abortPhase>>

\* a handshake type that matches none of the three branches: nothing is
\* written or read, and the handshake reports completion
HsOtherType ==
    /\ pc = "hs_other"
    /\ HandshakeDone
    /\ UNCHANGED <<unitVars, codecVars, protocol, radio, op, pat, rident, connection, aborted, identification,
                   buffer, data, io, idx, got, region, offset, chunk, outcome>>
    /\ UNCHANGED <<lastAck, abortPhase>>

(***************************************************************************)
(* Block transfer: frames and loops                                        *)
(***************************************************************************)
\* variant: the address bytes of a read request in little-endian order
ReadRequestLittleEndian(p, address, size) ==
    <<p.read.cmd, address % 256, (address \div 256) % 256, size % 256>>

\* readBlock: [cmd, (address >> 8) & 0xFF, address & 0xFF, size]
ReadRequest(p, address, size) ==
    <<p.read.cmd, (address \div 256) % 256, address % 256, size % 256>>

\* writeBlock: [cmd, (address >> 8) & 0xFF, address & 0xFF, data.length, ...data]
WriteRequest(p, address, d) ==
    <<p.write.cmd, (address \div 256) % 256, address % 256, Len(d) % 256>> \o d

\* variant: the loop condition without the abort flag
LoopContinuesNoAbort(off, end, ab) == off < end

\* loop condition of every block loop: offset < end && !this.aborted
LoopContinues(off, end, ab) == off < end /\ ~ab

NoBlock == [do |-> "return", region |-> 0, address |-> 0, size |-> 0]

RECURSIVE NextRegionBlock(_, _, _, _, _)
\* the nested region loops of the multi-region layout, shared by download
\* and upload: the next block to transfer, or the end of the loops.  The
\* inner loop tests its condition at (r, off); when it ends, the outer loop
\* enters the next region unless the flag is set.
NextRegionBlock(regions, r, off, blockSize, ab) ==
    IF LoopContinues(off, regions[r].start + regions[r].size, ab)
    THEN [do |-> "block", region |-> r, address |-> off,
          size |-> Min(blockSize, regions[r].start + regions[r].size - off)]
    ELSE IF r < Len(regions) /\ ~ab
    THEN NextRegionBlock(regions, r + 1, regions[r + 1].start, blockSize, ab)
    ELSE NoBlock

\* entry of the outer loop: if (this.aborted) break
FirstRegionBlock(regions, blockSize, ab) ==
    IF ab THEN NoBlock
    ELSE NextRegionBlock(regions, 1, regions[1].start, blockSize, ab)

\* Math.min(layout.mainEnd || memorySize, memorySize)
DownloadMainEnd(p) ==
    Min(IF p.memoryLayout.mainEnd # 0 THEN p.memoryLayout.mainEnd ELSE p.memSize,
        p.memSize)

\* the main loop and the aux loop of the single-region download
NextSingleRead(p, stage, off, ab) ==
    LET l == p.memoryLayout
        bs == p.read.blockSize
    IN
    IF stage = 1 /\ LoopContinues(off, DownloadMainEnd(p), ab)
    THEN [do |-> "block", region |-> 1, address |-> off, size |-> bs]
    ELSE IF stage = 1
    THEN IF l.auxStart # 0 /\ l.auxEnd # 0 /\ ~ab
            /\ LoopContinues(l.auxStart, l.auxEnd, ab)
         THEN [do |-> "block", region |-> 2, address |-> l.auxStart, size |-> bs]
         ELSE NoBlock
    ELSE IF LoopContinues(off, l.auxEnd, ab)
    THEN [do |-> "block", region |-> 2, address |-> off, size |-> bs]
    ELSE NoBlock

NextRead(p, stage, off, ab) ==
    IF p.memoryLayout.regions # << >>
    THEN NextRegionBlock(p.memoryLayout.regions, stage, off, p.read.blockSize, ab)
    ELSE NextSingleRead(p, stage, off, ab)

\* layout.headerSize || 8, Math.max(layout.mainStart || 0, headerSize)
UploadMainStart(p) ==
    Max(p.memoryLayout.mainStart,
        IF p.memoryLayout.headerSize # 0 THEN p.memoryLayout.headerSize ELSE 8)

\* Math.min(layout.mainEnd || data.length, data.length)
UploadMainEnd(p, d) ==
    Min(IF p.memoryLayout.mainEnd # 0 THEN p.memoryLayout.mainEnd ELSE Len(d),
        Len(d))

\* the single-region upload loop, with its break on an empty chunk
NextSingleWrite(p, d, off, ab) ==
    IF LoopContinues(off, UploadMainEnd(p, d), ab)
       /\ Len(Slice(d, off, off + p.write.blockSize)) # 0
    THEN [do |-> "block", region |-> 1, address |-> off,
          size |-> Len(Slice(d, off, off + p.write.blockSize))]
    ELSE NoBlock

NextWrite(p, d, stage, off, ab) ==
    IF p.memoryLayout.regions # << >>
    THEN NextRegionBlock(p.memoryLayout.regions, stage, off, p.write.blockSize, ab)
    ELSE NextSingleWrite(p, d, off, ab)

\* the bytes of the image that go into the write frame of a block:
\* multi-region slices at the running data offset and encrypts when the
\* protocol has an encryption entry; single-region slices at the address
UploadChunk(p, d, address, size, dataOffset) ==
    IF p.memoryLayout.regions # << >>
    THEN LET c == Slice(d, dataOffset, dataOffset + size) IN
         IF p.encryption.type # "none"
         THEN encryptUV17Pro(c, p.encryption.symbolIndex) ELSE c
    ELSE Slice(d, address, address + p.write.blockSize)

(***************************************************************************)
(* downloadBlocks / readBlock                                              *)
(***************************************************************************)
\* variant: the identification is not put in front of the image
ImageHeaderNone(p, ident) == << >>

\* the header the image starts with
ImageHeader(p, ident) ==
    IF ident.set /\ p.memoryLayout.headerSize # 0
    THEN Slice(ident.bytes, 0, p.memoryLayout.headerSize)
    ELSE IF ident.set THEN ident.bytes ELSE << >>

\* layout.totalSize || memorySize
TotalSize(p, fallback) ==
    IF p.memoryLayout.totalSize # 0 THEN p.memoryLayout.totalSize ELSE fallback

\* download(): downloadBlocks returned
DownloadReturns ==
    /\ progress' = [message |-> "Download complete", percent |-> 100]
    /\ outcome' = [NoOutcome EXCEPT !.kind = "ok"]
    /\ pc' = "finally"

\* write the read request of block b and wait for its response
SendReadRequest(b) ==
    /\ io' = Append(io, W("readReq", ReadRequest(protocol, b.address, b.size)))
    /\ region' = b.region
    /\ offset' = b.address
    /\ pc' = IF protocol.read.skipHeaderValidation THEN "rd_skip"
             ELSE IF protocol.read.responseCmd # -1 THEN "rd_header"
             ELSE "rd_data"
    /\ UNCHANGED <<progress, outcome>>

\* downloadBlocks up to its first await
DlBegin ==
    /\ pc = "blocks"
    /\ op = "download"
    /\ buffer' = ImageHeader(protocol, identification)
    /\ got' = 0
    /\ LET b == IF protocol.memoryLayout.regions # << >>
                THEN FirstRegionBlock(protocol.memoryLayout.regions,
                                      protocol.read.blockSize, aborted)
                ELSE NextSingleRead(protocol, 1, protocol.memoryLayout.mainStart,
                                    aborted)
       IN IF b.do = "block"
          THEN SendReadRequest(b)
          ELSE DownloadReturns /\ UNCHANGED <<io, region, offset>>
    /\ UNCHANGED <<unitVars, codecVars, protocol, radio, op, pat, rident, connection, aborted, identification,
                   data, idx, chunk>>
    /\ UNCHANGED <<lastAck, abortPhase>>

\* size of the block in flight
CurSize ==
    IF protocol.memoryLayout.regions # << >>
    THEN LET r == protocol.memoryLayout.regions[region] IN
         Min(protocol.read.blockSize, r.start + r.size - offset)
    ELSE protocol.read.blockSize

\* variant: no block read is treated as an aux read
InAuxNever == FALSE

\* the block in flight belongs to the aux loop
InAux == protocol.memoryLayout.regions = << >> /\ region = 2

\* readBlock threw: the aux loop catches and breaks, every other loop lets
\* the error out of download()
ReadFailed(msg, address) ==
    IF InAux
    THEN DownloadReturns
    ELSE Throw(msg, address) /\ progress' = progress

\* Math.floor of a ratio scaled by k
Percent(base, k, num, den) == base + ((num * k) \div den)

\* readBlock returned c (log: what was exchanged so far): push it, report
\* progress, re-test the loop and either write the next request or return
BlockRead(c, log) ==
    LET p == protocol
        multi == p.memoryLayout.regions # << >>
        bytesRead == got + CurSize
        b == NextRead(p, region, offset + p.read.blockSize, aborted)
    IN
    /\ buffer' = buffer \o c
    /\ got' = IF multi THEN bytesRead ELSE got
    /\ chunk' = << >>
    /\ IF b.do = "block"
       THEN /\ io' = Append(log, W("readReq", ReadRequest(p, b.address, b.size)))
            /\ region' = b.region
            /\ offset' = b.address
            /\ pc' = IF p.read.skipHeaderValidation THEN "rd_skip"
                     ELSE IF p.read.responseCmd # -1 THEN "rd_header"
                     ELSE "rd_data"
            /\ outcome' = outcome
            /\ progress' =
                 IF multi
                 THEN [message |-> "Downloading",
                       percent |-> Percent(10, 85, bytesRead, TotalSize(p, p.memSize))]
                 ELSE IF region = 1
                 THEN [message |-> "Downloading",
                       percent |-> Percent(10, 80, offset - p.memoryLayout.mainStart,
                                    DownloadMainEnd(p) - p.memoryLayout.mainStart)]
                 ELSE progress
       ELSE /\ DownloadReturns
            /\ UNCHANGED <<io, region, offset>>

\* what the radio can answer to a read(4) of the response header
HeaderReplies(p, address, size) ==
    LET hi == (address \div 256) % 256
        lo == address % 256
    IN { <<p.read.responseCmd, hi, lo, size>>,
         <<21, hi, lo, size>>,
         <<p.read.responseCmd, hi, (lo + 1) % 256, size>>,
         <<p.read.responseCmd, hi, lo, (size + 1) % 256>>,
         <<p.read.responseCmd, hi>>,
         << >> }

\* what the radio can answer to a read(size): the block, a short block, nothing
DataReplies(address, size) ==
    { WireBlock(pat, address, size),
      WireBlock(pat, address, size - 1),
      << >> }

\* the 4-byte prefix in front of a prefix-stripped block: an echo or anything
PrefixReplies(p, address, size) ==
    { <<p.read.cmd, (address \div 256) % 256, address % 256, size>>,
      <<21, 0, 0, 0>> }

\* variant: the header validation without the address/size comparison
HeaderErrorNoAddr(header, p, address, size) ==
    IF Len(header) # 4 THEN "invalid_response_header"
    ELSE IF header[1] # p.read.responseCmd THEN "unexpected_response_command"
    ELSE "none"

\* header[0] === responseCmd, then respAddr === address && respSize === size
HeaderError(header, p, address, size) ==
    IF Len(header) # 4 THEN "invalid_response_header"
    ELSE IF header[1] # p.read.responseCmd THEN "unexpected_response_command"
    ELSE IF header[2] * 256 + header[3] # address \/ header[4] # size
    THEN "address_size_mismatch"
    ELSE "none"

\* standard path: read(4, 2000) and validate
RdHeader ==
    /\ pc = "rd_header"
    /\ \E header \in HeaderReplies(protocol, offset, CurSize) :
         /\ io' = Append(io, R("header", header, 4))
         /\ IF HeaderError(header, protocol, offset, CurSize) # "none"
            THEN ReadFailed(HeaderError(header, protocol, offset, CurSize), offset)
            ELSE pc' = "rd_data" /\ UNCHANGED <<progress, outcome>>
    /\ UNCHANGED <<unitVars, codecVars, protocol, radio, op, pat, rident, connection, aborted, identification,
                   buffer, data, idx, got, region, offset, chunk>>
    /\ UNCHANGED <<lastAck, abortPhase>>

\* variant: the block is returned as received
ReadChunkRaw(p, d) == d

\* the chunk a block read returns for the data bytes d received
\* (prefix-stripping path: decrypt when the protocol has an encryption entry;
\* standard path: the bytes as received)
ReadChunk(p, d) ==
    IF p.read.skipHeaderValidation /\ p.encryption.type # "none"
    THEN decryptUV17Pro(d, p.encryption.symbolIndex)
    ELSE d

\* read.ackByte || 0x06
BlockAck(p) == <<IF p.read.ackByte # 0 THEN p.read.ackByte ELSE 6>>

\* variant: only an empty read counts as short
ShortReadLenient(d, size) == Len(d) = 0

\* data.length !== size / response.length !== size + 4
ShortRead(d, size) == Len(d) # size

\* standard path: read(size, 2000), length check, ACK
RdData ==
    /\ pc = "rd_data"
    /\ \E d \in DataReplies(offset, CurSize) :
         LET rd == R("data", d, CurSize) IN
         IF ShortRead(d, CurSize)
         THEN /\ io' = Append(io, rd)
              /\ ReadFailed("short_read", offset)
              /\ UNCHANGED <<buffer, got, region, offset, chunk>>
         ELSE IF protocol.read.ackAfterBlock
         THEN /\ io' = io \o <<rd, W("blockAck", BlockAck(protocol))>>
              /\ chunk' = ReadChunk(protocol, d)
              /\ pc' = "rd_delay"
              /\ UNCHANGED <<buffer, got, region, offset, progress, outcome>>
         ELSE BlockRead(ReadChunk(protocol, d), Append(io, rd))
    /\ UNCHANGED <<unitVars, codecVars, protocol, radio, op, pat, rident, connection, aborted, identification,
                   data, idx>>
    /\ UNCHANGED <<lastAck, abortPhase>>

\* prefix-stripping path: read(size + 4, 3000), length check, strip, decrypt, ACK
RdSkip ==
    /\ pc = "rd_skip"
    /\ \E prefix \in PrefixReplies(protocol, offset, CurSize),
          d \in DataReplies(offset, CurSize) :
         LET response == IF Len(d) = 0 THEN << >> ELSE prefix \o d
             rd == R("hdrdata", response, CurSize + 4)
         IN
         IF ShortRead(response, CurSize + 4)
         THEN /\ io' = Append(io, rd)
              /\ ReadFailed("short_read", offset)
              /\ UNCHANGED <<buffer, got, region, offset, chunk>>
         ELSE IF protocol.read.ackAfterBlock
         THEN /\ io' = io \o <<rd, W("blockAck", BlockAck(protocol))>>
              /\ chunk' = ReadChunk(protocol, Slice(response, 4, Len(response)))
              /\ pc' = "rd_delay"
              /\ UNCHANGED <<buffer, got, region, offset, progress, outcome>>
         ELSE BlockRead(ReadChunk(protocol, Slice(response, 4, Len(response))),
                        Append(io, rd))
    /\ UNCHANGED <<unitVars, codecVars, protocol, radio, op, pat, rident, connection, aborted, identification,
                   data, idx>>
    /\ UNCHANGED <<lastAck, abortPhase>>

\* the delay after the block ACK has passed: readBlock returns
RdDelay ==
    /\ pc = "rd_delay"
    /\ BlockRead(chunk, io)
    /\ UNCHANGED <<unitVars, codecVars, protocol, radio, op, pat, rident, connection, aborted, identification,
                   data, idx>>
    /\ UNCHANGED <<lastAck, abortPhase>>

(***************************************************************************)
(* uploadBlocks / writeBlock                                               *)
(***************************************************************************)
\* upload(): uploadBlocks returned
UploadReturns ==
    /\ progress' = [message |-> "Upload complete", percent |-> 100]
    /\ outcome' = [NoOutcome EXCEPT !.kind = "ok"]
    /\ pc' = "finally"

\* write the frame of block b (or return when the loops have ended)
WriteNext(b, dataOffset) ==
    IF b.do = "block"
    THEN LET c == UploadChunk(protocol, data, b.address, b.size, dataOffset) IN
         /\ io' = Append(io, W("writeReq", WriteRequest(protocol, b.address, c)))
         /\ region' = b.region
         /\ offset' = b.address
         /\ chunk' = c
         /\ pc' = "wr_ack"
         /\ outcome' = outcome
    ELSE /\ UploadReturns
         /\ UNCHANGED <<io, region, offset, chunk>>

\* uploadBlocks up to its first await
UlBegin ==
    /\ pc = "blocks"
    /\ op = "upload"
    /\ got' = 0
    /\ LET b == IF protocol.memoryLayout.regions # << >>
                THEN FirstRegionBlock(protocol.memoryLayout.regions,
                                      protocol.write.blockSize, aborted)
                ELSE NextSingleWrite(protocol, data, UploadMainStart(protocol),
                                     aborted)
       IN /\ WriteNext(b, 0)
          /\ IF b.do = "block" THEN progress' = progress ELSE TRUE
    /\ UNCHANGED <<unitVars, codecVars, protocol, radio, op, pat, rident, connection, aborted, identification,
                   buffer, data, idx>>
    /\ UNCHANGED <<lastAck, abortPhase>>

\* variant: any byte read is taken as a good ACK
WriteAckErrorLenient(ack, expectAck) ==
    IF expectAck = -1 THEN "none"
    ELSE IF Len(ack) = 0 THEN "no_ack"
    ELSE "none"

\* the error of writeBlock for the ACK read, "none" when the ACK is good
WriteAckError(ack, expectAck) ==
    IF expectAck = -1 THEN "none"
    ELSE IF Len(ack) = 0 THEN "no_ack"
    ELSE IF ack[1] # expectAck THEN "bad_ack"
    ELSE "none"

\* writeBlock: read(1, 2000), check, delay; then progress, the loop test and
\* the next frame
WrAck ==
    /\ pc = "wr_ack"
    /\ \E ack \in AckReplies :
         LET p == protocol
             multi == p.memoryLayout.regions # << >>
             written == got + Len(chunk)
             b == NextWrite(p, data, region, offset + p.write.blockSize, aborted)
             log == IF p.write.expectAck # -1
                    THEN Append(io, R("writeAck", ack, 1)) ELSE io
         IN
         IF WriteAckError(ack, p.write.expectAck) # "none"
         THEN /\ io' = log
              /\ Throw(WriteAckError(ack, p.write.expectAck), offset)
              /\ UNCHANGED <<got, region, offset, chunk, progress>>
         ELSE /\ got' = IF multi THEN written ELSE got
              /\ IF b.do = "block"
                 THEN LET c == UploadChunk(p, data, b.address, b.size, written) IN
                      /\ io' = Append(log, W("writeReq",
                                             WriteRequest(p, b.address, c)))
                      /\ region' = b.region
                      /\ offset' = b.address
                      /\ chunk' = c
                      /\ pc' = "wr_ack"
                      /\ outcome' = outcome
                      /\ progress' =
                           IF multi
                           THEN [message |-> "Uploading",
                                 percent |-> Percent(10, 85, written,
                                                     TotalSize(p, Len(data)))]
                           ELSE [message |-> "Uploading",
                                 percent |-> Percent(10, 85,
                                     offset - UploadMainStart(p),
                                     UploadMainEnd(p, data) - UploadMainStart(p))]
                 ELSE /\ UploadReturns
                      /\ io' = log
                      /\ UNCHANGED <<region, offset, chunk>>
    /\ UNCHANGED <<unitVars, codecVars, protocol, radio, op, pat, rident, connection, aborted, identification,
                   buffer, data, idx>>
    /\ UNCHANGED <<lastAck, abortPhase>>

(***************************************************************************)
(* Specification                                                           *)
(***************************************************************************)
Next ==
    \/ RequestPort
    \/ Start
    \/ Abort
    \/ HsMagicSend
    \/ HsMagicAck
    \/ HsIdentByte
    \/ HsIdentAck
    \/ HsProgramSend
    \/ HsProgramAck
    \/ HsProgramIdent
    \/ HsProgramIdentAck
    \/ HsUvSend
    \/ HsUvPoll
    \/ HsUvMagic
    \/ HsOtherType
    \/ DlBegin
    \/ RdHeader
    \/ RdData
    \/ RdSkip
    \/ RdDelay
    \/ UlBegin
    \/ WrAck
    \/ Finally

Spec == Init /\ [][Next]_vars

TypeOK ==
    /\ pc \in {"idle", "start", "magic_send", "magic_ack", "ident_byte",
               "ident_ack", "program_send", "program_ack", "program_ident",
               "program_ident_ack", "uv_send", "uv_poll", "uv_magic", "hs_other",
               "blocks", "rd_header", "rd_data", "rd_skip", "rd_delay", "wr_ack",
               "finally", "done"}
    /\ connection \in {"none", "open", "closed"}
    /\ aborted \in BOOLEAN
    /\ outcome.kind \in {"none", "ok", "error", "port_cancelled"}

(***************************************************************************)
(* Properties of the clone engine, stated over the exchange history io     *)
(***************************************************************************)
IsRequest(e) == e.kind \in {"readReq", "writeReq"}

\* positions of the block request frames in the history
RequestIndexes(log) == {i \in 1..Len(log) : IsRequest(log[i])}

ReqCount(log) == Cardinality(RequestIndexes(log))

\* the address a request frame names
FrameAddress(e) == e.bytes[2] * 256 + e.bytes[3]

\* the request frame an entry at position i answers: the last one before i
RequestBefore(i) ==
    CHOOSE j \in RequestIndexes(io) :
        j < i /\ \A k \in RequestIndexes(io) : k < i => k <= j

SessionFailed == pc \in {"finally", "done"} /\ outcome.kind = "error"

\* C1: during upload, when the ACK byte read after a write frame is missing
\* or differs from the descriptor's expected ACK byte, the upload fails with
\* an error carrying the address of that block, and nothing further is
\* written in the session.
C1_BadAckEndsUpload ==
    \A i \in 1..Len(io) :
        (io[i].kind = "writeAck" /\ io[i].bytes # <<protocol.write.expectAck>>)
        => /\ i = Len(io)
           /\ i > 1
           /\ io[i - 1].kind = "writeReq"
           /\ SessionFailed
           /\ outcome.msg \in {"no_ack", "bad_ack"}
           /\ outcome.address = FrameAddress(io[i - 1])

\* a second block's write frame was answered with a wrong byte, and the
\* session has ended
C1_Witness ==
    /\ pc = "done"
    /\ op = "upload"
    /\ ReqCount(io) = 2
    /\ io[Len(io)].kind = "writeAck"
    /\ io[Len(io)].bytes = <<21>>

\* the entries a finished read exchange consists of, for a block of the
\* given size: the kinds and lengths of its reads
ReadResponseShape(rd, size) ==
    IF rd.skipHeaderValidation
    THEN <<[kind |-> "hdrdata", len |-> size + 4]>>
    ELSE IF rd.responseCmd # -1
    THEN <<[kind |-> "header", len |-> 4], [kind |-> "data", len |-> size]>>
    ELSE <<[kind |-> "data", len |-> size]>>

\* the exchange of the request at j is finished just before position i
ExchangeFinished(j, i) ==
    IF io[j].kind = "readReq"
    THEN LET rd == protocol.read
             shape == ReadResponseShape(rd, io[j].bytes[4])
             n == Len(shape) + (IF rd.ackAfterBlock THEN 1 ELSE 0)
         IN /\ i = j + n + 1
            /\ \A k \in 1..Len(shape) :
                   /\ io[j + k].dir = "r"
                   /\ io[j + k].kind = shape[k].kind
                   /\ Len(io[j + k].bytes) = shape[k].len
            /\ rd.ackAfterBlock =>
                   (io[i - 1].dir = "w" /\ io[i - 1].kind = "blockAck")
    ELSE IF protocol.write.expectAck # -1
    THEN /\ i = j + 2
         /\ io[j + 1].kind = "writeAck"
         /\ io[j + 1].bytes = <<protocol.write.expectAck>>
    ELSE i = j + 1

\* C2: frames are strictly serial: a request frame is written only after
\* the previous frame's exchange is finished (the block's full response
\* received and, with ackAfterBlock, its ACK written; or the radio's ACK of
\* the previous write frame read).
C2_StrictlySerial ==
    \A i \in RequestIndexes(io) :
        (\E j \in RequestIndexes(io) : j < i)
        => ExchangeFinished(RequestBefore(i), i)

\* a download with per-block ACK that has written its second read request
C2_Witness ==
    /\ op = "download"
    /\ protocol.read.ackAfterBlock
    /\ protocol.read.responseCmd # -1
    /\ ReqCount(io) >= 2
    /\ io[Len(io)].kind = "readReq"

\* the request at j asks for a block of the aux region
InAuxFrame(j) ==
    /\ protocol.memoryLayout.regions = << >>
    /\ protocol.memoryLayout.auxStart # 0
    /\ FrameAddress(io[j]) >= protocol.memoryLayout.auxStart

\* four bytes h do not echo the request at j (command, address, size)
EchoDiffers(h, j) ==
    \/ h[1] # protocol.read.responseCmd
    \/ h[2] * 256 + h[3] # FrameAddress(io[j])
    \/ h[4] # io[j].bytes[4]

\* the session ended in an error at entry i, the block of the request at j
\* was not appended and nothing was sent after it
EndsSessionAt(i, j) ==
    /\ i = Len(io)
    /\ SessionFailed
    /\ outcome.address = FrameAddress(io[j])
    /\ Len(buffer) = Len(ImageHeader(protocol, identification))
                     + protocol.read.blockSize
                       * Cardinality({k \in RequestIndexes(io) : k < j})

\* C3 (as amended): on a block read outside the aux region, a header or
\* data read that delivers fewer bytes than requested ends the session with
\* an error, and so does a 4-byte response header (read when the descriptor
\* declares one and does not strip it unchecked) whose command echo, address
\* or size differs from the request: the block is not appended and no
\* further request frame is sent.
C3_BadReadEndsSession ==
    \A i \in 1..Len(io) :
        (/\ io[i].dir = "r"
         /\ io[i].kind \in {"header", "data", "hdrdata"}
         /\ ~InAuxFrame(RequestBefore(i))
         /\ \/ Len(io[i].bytes) < io[i].want
            \/ io[i].kind = "header" /\ EchoDiffers(io[i].bytes, RequestBefore(i)))
        => EndsSessionAt(i, RequestBefore(i))

\* C3 (as stated): whenever the descriptor declares a response header, a
\* response whose command echo, address or size differs from the request
\* ends the session with an error
C3_AsStated ==
    \A i \in 1..Len(io) :
        (/\ io[i].dir = "r"
         /\ io[i].kind \in {"header", "data", "hdrdata"}
         /\ ~InAuxFrame(RequestBefore(i))
         /\ protocol.read.responseCmd # -1
         /\ \/ Len(io[i].bytes) < io[i].want
            \/ /\ io[i].kind \in {"header", "hdrdata"}
               /\ EchoDiffers(io[i].bytes, RequestBefore(i)))
        => EndsSessionAt(i, RequestBefore(i))

\* the second block of a main region came back with a header naming another
\* address, and the session has ended
C3_Witness ==
    /\ pc = "done"
    /\ outcome.msg = "address_size_mismatch"
    /\ ReqCount(io) = 2
    /\ io[Len(io)].kind = "header"
    /\ ~InAuxFrame(RequestBefore(Len(io)))

\* the bytes written as magic bytes so far, one per write
MagicWrites(log) == SelectSeq(log, LAMBDA e : e.kind = "magic")

\* C4: with several candidate magic sequences the candidates are tried in
\* list order, each written byte by byte; a wrong ACK byte or a timeout
\* moves on to the next candidate; the candidate loop ends without an error
\* as soon as one candidate is answered with the expected ACK byte, and the
\* handshake error is raised only when every candidate has failed.
C4_CandidatesInOrder ==
    [][LET hs == protocol.handshake
           n == Len(MagicSequences(hs))
           acked == lastAck' = <<hs.expectAck>>
       IN
       /\ (pc = "start" /\ pc' = "magic_send") => idx = 0
       /\ (pc = "magic_send" /\ pc' = "magic_ack")
          => /\ idx' = idx
             /\ MagicWrites(io') =
                  MagicWrites(io)
                  \o [k \in 1..Len(MagicSequences(hs)[idx + 1]) |->
                        W("magic", <<MagicSequences(hs)[idx + 1][k]>>)]
       /\ (pc = "magic_ack" /\ pc' # "magic_ack")
          => /\ acked => /\ pc' \in {"ident_byte", "blocks"}
                         /\ outcome' = NoOutcome
             /\ (~acked /\ idx + 1 < n)
                => /\ pc' = "magic_send"
                   /\ idx' = idx + 1
                   /\ outcome' = NoOutcome
             /\ (~acked /\ idx + 1 >= n)
                => /\ pc' = "finally"
                   /\ outcome' = [kind |-> "error",
                                  msg |-> "handshake_not_acknowledged",
                                  address |-> -1]
    ]_vars

\* the first of two candidates was not acknowledged, the second was, and
\* the session ended without an error
C4_Witness ==
    /\ Len(MagicSequences(protocol.handshake)) = 2
    /\ Len(MagicWrites(io)) = 14
    /\ pc = "done"
    /\ outcome.kind = "ok"

\* C5: a cancellation requested while blocks are being transferred ends the
\* session with an error, not as a successful transfer reporting completion.
C5_CancelledIsAnError ==
    (pc = "done" /\ abortPhase = "blocks")
    => /\ outcome.kind = "error"
       /\ progress.message \notin {"Download complete", "Upload complete"}

\* how far the exchange of the block in flight has got
BlockRank(p) ==
    CASE p \in {"rd_header", "rd_skip"} -> 1
      [] p = "rd_data" -> 2
      [] p \in {"rd_delay", "wr_ack"} -> 3
      [] p = "finally" -> 4
      [] OTHER -> 5

\* C6: once abort() has been called the engine writes no further request
\* frame; during a block transfer every step it takes moves the block in
\* flight forward, and the step that completes (or fails) that block returns.
C6_AbortBounded ==
    [][aborted
       => /\ ReqCount(io') = ReqCount(io)
          /\ (pc \in {"rd_header", "rd_data", "rd_skip", "rd_delay", "wr_ack"})
             => BlockRank(pc') > BlockRank(pc)
          /\ buffer' # buffer => pc' = "finally"
          /\ pc \in {"rd_delay", "wr_ack"} => pc' = "finally"
    ]_vars

\* abort() was called while the first block of a region with more blocks
\* was in flight; that block was completed and the engine returned
C6_Witness ==
    /\ abortPhase = "blocks"
    /\ pc = "done"
    /\ outcome.kind = "ok"
    /\ ReqCount(io) = 1

\* C7: a descriptor whose handshake is none of the three variants never
\* gets to a block request, and its session does not end successfully.
C7_NoTransferWithoutHandshake ==
    protocol.handshake.type \notin {"none", "magic", "program", "uv17pro"}
    => /\ ReqCount(io) = 0
       /\ pc = "done" => outcome.kind # "ok"

\* the deobfuscation the descriptor configures
Deobfuscate(p, d) ==
    CASE p.encryption.type = "uv17pro" -> decryptUV17Pro(d, p.encryption.symbolIndex)
      [] p.encryption.type = "wouxun" -> wouxunCrypt(d, p.encryption.valxor, TRUE)
      [] OTHER -> d

\* the obfuscation the descriptor configures
Obfuscate(p, d) ==
    CASE p.encryption.type = "uv17pro" -> encryptUV17Pro(d, p.encryption.symbolIndex)
      [] p.encryption.type = "wouxun" -> wouxunCrypt(d, p.encryption.valxor, FALSE)
      [] OTHER -> d

\* the data bytes of the last block read in the history
LastDataBytes(log) ==
    LET reads == SelectSeq(log, LAMBDA e : e.kind \in {"data", "hdrdata"})
        e == reads[Len(reads)]
    IN IF e.kind = "hdrdata" THEN Slice(e.bytes, 4, Len(e.bytes)) ELSE e.bytes

\* C8: for every descriptor that configures obfuscation, each block appended
\* to the image is the deobfuscated form of the data bytes received.
C8_AppendedBlocksDeobfuscated ==
    [][(protocol.encryption.type # "none" /\ pc # "blocks" /\ buffer' # buffer)
       => buffer' = buffer \o Deobfuscate(protocol, LastDataBytes(io'))
    ]_vars

\* the plaintext image block a write frame at position i carries
ImageBlock(i) ==
    IF protocol.memoryLayout.regions # << >>
    THEN LET before == {k \in RequestIndexes(io) : k < i}
             dataOffset == protocol.write.blockSize * Cardinality(before)
         IN Slice(data, dataOffset, dataOffset + io[i].bytes[4])
    ELSE Slice(data, FrameAddress(io[i]), FrameAddress(io[i]) + io[i].bytes[4])

\* C9: for every descriptor that configures obfuscation, single-region or
\* multi-region, the data bytes of every write frame are the obfuscated
\* form of the image block they carry.
C9_WriteFramesObfuscated ==
    \A i \in 1..Len(io) :
        (protocol.encryption.type # "none" /\ io[i].kind = "writeReq")
        => Slice(io[i].bytes, 4, Len(io[i].bytes))
             = Obfuscate(protocol, ImageBlock(i))

\* C10: an upload for a model whose memory format (its own, or the fallback
\* one) is not marked lossless sends nothing to the radio.
C10_UploadRefusedUnlessLossless ==
    (op = "upload" /\ "lossless" \notin serializeRadioMemory(protocol))
    => \A i \in 1..Len(io) : io[i].dir # "w"

RECURSIVE RegionsImage(_, _)
\* the decoded bytes of regions r.. of the layout, in the declared order,
\* each region in increasing address order
RegionsImage(regions, r) ==
    IF r > Len(regions) THEN << >>
    ELSE Deobfuscate(protocol, WireBlock(pat, regions[r].start, regions[r].size))
         \o RegionsImage(regions, r + 1)

RECURSIVE RegionsSize(_, _)
RegionsSize(regions, r) ==
    IF r > Len(regions) THEN 0
    ELSE regions[r].size + RegionsSize(regions, r + 1)

BadRead(i) ==
    /\ io[i].dir = "r"
    /\ io[i].kind \in {"header", "data", "hdrdata"}
    /\ \/ Len(io[i].bytes) < io[i].want
       \/ io[i].kind = "header" /\ EchoDiffers(io[i].bytes, RequestBefore(i))

\* header, the whole main region and the aux region up to address upTo
ImageUpToAux(upTo) ==
    LET l == protocol.memoryLayout IN
    ImageHeader(protocol, identification)
    \o WireBlock(pat, l.mainStart, DownloadMainEnd(protocol) - l.mainStart)
    \o WireBlock(pat, l.auxStart, upTo - l.auxStart)

\* C16: in a single-region layout with an aux region a failed aux block
\* read ends the download successfully with the header, all main blocks and
\* exactly the aux blocks read before the failure, and nothing is requested
\* after the failing block; a failed main block read fails the download.
C16_AuxFailureTruncates ==
    \A i \in 1..Len(io) :
        BadRead(i)
        => IF InAuxFrame(RequestBefore(i))
           THEN /\ i = Len(io)
                /\ pc \in {"finally", "done"}
                /\ outcome.kind = "ok"
                /\ buffer = ImageUpToAux(FrameAddress(io[RequestBefore(i)]))
           ELSE /\ i = Len(io)
                /\ SessionFailed

\* the second aux block failed: the first one is kept, the download ended
\* successfully
C16_Witness ==
    /\ pc = "done"
    /\ outcome.kind = "ok"
    /\ ReqCount(io) > 0
    /\ BadRead(Len(io))
    /\ InAuxFrame(RequestBefore(Len(io)))
    /\ FrameAddress(io[RequestBefore(Len(io))])
         = protocol.memoryLayout.auxStart + protocol.read.blockSize
    /\ Len(buffer) = Len(ImageUpToAux(protocol.memoryLayout.auxStart))
                     + protocol.read.blockSize

IsUV5R == protocol.modelDef.protocol = "baofeng-uv5r"

\* every byte of the identification read so far was delivered, and the
\* read loop has windows left after this one
IdentDelivered ==
    /\ Len(chunk) = idx
    /\ chunk = SubSeq(rident, 1, idx)
    /\ idx + 1 < protocol.handshake.identLength

\* C17 (as amended): with the UV-5R descriptor, once the magic is
\* acknowledged and the ident command written, an identification of eight
\* bytes of which only the last is 0xDD is read to its end; the engine then
\* writes 06, discards the trailing byte whatever it is, and starts the
\* block transfer with all eight bytes as the image header.  The read loop
\* stops at the first 0xDD it receives.
C17_UV5RIdentRetained ==
    [][IsUV5R
       => /\ (pc = "ident_byte" /\ pc' \notin {"ident_byte", "finally"})
             => /\ pc' = "ident_ack"
                /\ identification' = [set |-> TRUE, bytes |-> rident]
                /\ Len(rident) = 8
                /\ io' = Append(io, W("identAck", <<6>>))
          /\ (pc = "ident_byte" /\ IdentDelivered /\ rident[idx + 1] # 221)
             => pc' = "ident_byte"
          /\ (pc = "ident_byte" /\ pc' = "finally")
             => /\ outcome'.msg = "identification_short"
                /\ \/ Len(chunk) < idx
                   \/ idx + 1 = protocol.handshake.identLength
                   \/ rident[idx + 1] = 221
          /\ (pc = "ident_ack" /\ pc' # "ident_ack")
             => (pc' = "blocks" /\ outcome' = NoOutcome /\ io' = io)
          /\ (pc = "blocks" /\ op = "download" /\ pc' # "blocks")
             => /\ Len(buffer') >= 8
                /\ SubSeq(buffer', 1, 8) = identification.bytes
      ]_vars

\* C17 (as stated): the identification AA BB CC DD EE FF 11 DD, delivered
\* byte by byte, never fails the UV-5R handshake
C17_AsStated ==
    [][(/\ IsUV5R
        /\ pc = "ident_byte"
        /\ rident = <<170, 187, 204, 221, 238, 255, 17, 221>>
        /\ IdentDelivered)
       => pc' # "finally"
      ]_vars

\* the identification AA 30 76 04 00 05 20 DD was read, acknowledged, and
\* the first block request follows the eight header bytes
C17_Witness ==
    /\ IsUV5R
    /\ op = "download"
    /\ pc = "rd_header"
    /\ identification.bytes = <<170, 48, 118, 4, 0, 5, 32, 221>>
    /\ buffer = identification.bytes
    /\ \E i \in 1..Len(io) : io[i] = W("identAck", <<6>>)

\* C18: in the magic variant the ACK 06 is written after the identification
\* exactly when the descriptor sets ackAfterIdent, and the byte read after
\* it, present or not, never fails the handshake
C18_AckOnlyWhenSet ==
    [][protocol.handshake.type = "magic"
       => /\ (pc = "ident_byte" /\ pc' \notin {"ident_byte", "finally"})
             => IF protocol.handshake.ackAfterIdent = "true"
                THEN pc' = "ident_ack" /\ io' = Append(io, W("identAck", <<6>>))
                ELSE pc' = "blocks" /\ io' = io
          /\ (pc = "ident_ack" /\ pc' # "ident_ack")
             => (pc' = "blocks" /\ outcome' = NoOutcome)
      ]_vars

UvMagicWrites(log) == SelectSeq(log, LAMBDA e : e.dir = "w" /\ e.kind = "uvMagic")

BeginsWith(response, prefix) ==
    /\ Len(response) >= Len(prefix)
    /\ SubSeq(response, 1, Len(prefix)) = prefix

\* the log entry in front of position i is the read of the response to the
\* k-th follow-up command
MagicResponseReadBefore(log, i, k) ==
    LET responseLen == protocol.handshake.magics[k].responseLen IN
    /\ i > 2
    /\ log[i - 1].dir = "r" /\ log[i - 1].kind = "uvMagicResp"
    /\ log[i - 1].want = responseLen
    /\ log[i - 2] = W("uvMagic", protocol.handshake.magics[k].cmd)

C20_ProgramAckWindows ==
    [][protocol.handshake.type = "program"
       => LET hs == protocol.handshake
              N == IF hs.maxAckRetries > 0 THEN hs.maxAckRetries ELSE 1
              acked == lastAck' = <<hs.expectAck>>
              window == pc = "program_ack" /\ (pc' # pc \/ idx' # idx)
          IN
          /\ (pc = "program_send" /\ pc' # "program_send")
             => /\ pc' = "program_ack"
                /\ idx' = 0
                /\ io'[Len(io')] = W("programCmd", hs.programCmd)
          /\ pc = "program_ack"
             => /\ idx < N
                /\ io[Len(io)] = W("programCmd", hs.programCmd)
          /\ (window /\ acked)
             => /\ pc' \in {"program_ident", "blocks"}
                /\ outcome' = NoOutcome
          /\ (window /\ ~acked /\ idx + 1 < N)
             => /\ pc' = "program_ack"
                /\ idx' = idx + 1
                /\ io' = io
                /\ outcome' = NoOutcome
          /\ (window /\ ~acked /\ idx + 1 >= N)
             => /\ pc' = "finally"
                /\ io' = io
                /\ outcome' = [kind |-> "error",
                               msg |-> "program_not_acknowledged",
                               address |-> -1]
          /\ outcome'.msg = "program_not_acknowledged"
             => /\ ReqCount(io') = 0
                /\ \A i \in 1..Len(io') : io'[i].kind # "identCmd"
      ]_vars

\* a descriptor with ten windows: the expected ACK byte was delivered in
\* one of them and the identification command was written
C20_Witness ==
    /\ protocol.handshake.type = "program"
    /\ protocol.handshake.maxAckRetries = 10
    /\ pc = "program_ident"
    /\ lastAck = <<protocol.handshake.expectAck>>
    /\ io[Len(io)].kind = "identCmd"

(***************************************************************************)
(* Memory codec (memory.js): image bytes <-> Memory objects                *)
(*                                                                         *)
(* A byte is a number of 0..255 and an image a sequence of bytes; byte k   *)
(* of the JavaScript array is element k + 1 of the sequence.  A string is  *)
(* the sequence of its character codes.  A CTCSS tone is held in tenths of *)
(* a hertz (88.5 Hz is 885), so that raw / 10.0 and Math.round(value * 10) *)
(* are exact.                                                              *)
(***************************************************************************)
\* number of channel slots an image is populated with
Channels == 2

\* a JavaScript value of mem.mode / mem.power: a string or a number
Str(s) == [t |-> "string", s |-> s, n |-> 0]
Num(n) == [t |-> "number", s |-> "", n |-> n]

\* the value counts as true in a condition
Truthy(v) == IF v.t = "string" THEN v.s # "" ELSE v.n # 0

\* the value as an operand of &: a non-numeric string is NaN, which is 0
ToInt32(v) == IF v.t = "number" THEN v.n ELSE 0

RECURSIVE BitAnd(_, _)
BitAnd(a, b) ==
    IF a = 0 \/ b = 0 THEN 0
    ELSE (a % 2) * (b % 2) + 2 * BitAnd(a \div 2, b \div 2)

BitOr(a, b) == a + b - BitAnd(a, b)

\* memoryFormat of RADIO_PROTOCOLS['baofeng-uv5r']; -1 is an undefined
\* nameOffset, << >> a mapping without a values array or a format without
\* defaults
UV5RMemoryFormat ==
    [channelSize |-> 16, numChannels |-> 128, startOffset |-> 8,
     nameOffset |-> 4096, nameSize |-> 7,
     fields |-> [rxFreq |-> [offset |-> 0, size |-> 4, type |-> "bcd", unit |-> 10],
                 txFreq |-> [offset |-> 4, size |-> 4, type |-> "bcd", unit |-> 10],
                 rxTone |-> [offset |-> 10, size |-> 2, type |-> "tone_u16le", unit |-> 0],
                 txTone |-> [offset |-> 8, size |-> 2, type |-> "tone_u16le", unit |-> 0],
                 flags |-> [offset |-> 12, size |-> 1, type |-> "byte", unit |-> 0]],
     flagMappings |-> << [name |-> "highPower", field |-> "flags", mask |-> 4,
                          shift |-> 2, invert |-> TRUE, values |-> << >>],
                         [name |-> "wide", field |-> "flags", mask |-> 2,
                          shift |-> 1, invert |-> FALSE, values |-> <<"NFM", "FM">>] >>,
     emptyCheck |-> "rxFreq",
     defaults |-> << >>]

\* defaultFormats['baofeng-uv5r']: as above, but highPower has a values array
DefaultUV5RMemoryFormat ==
    [UV5RMemoryFormat EXCEPT
       !.flagMappings = << [name |-> "highPower", field |-> "flags", mask |-> 4,
                            shift |-> 2, invert |-> TRUE, values |-> <<"Low", "High">>],
                           [name |-> "wide", field |-> "flags", mask |-> 2,
                            shift |-> 1, invert |-> FALSE, values |-> <<"NFM", "FM">>] >>]

\* memoryFormat of RADIO_PROTOCOLS['h777'] (and defaultFormats['h777'])
H777MemoryFormat ==
    [channelSize |-> 16, numChannels |-> 16, startOffset |-> 0,
     nameOffset |-> -1, nameSize |-> 0,
     fields |-> [rxFreq |-> [offset |-> 0, size |-> 4, type |-> "bcd", unit |-> 10],
                 txFreq |-> [offset |-> 4, size |-> 4, type |-> "bcd", unit |-> 10],
                 rxTone |-> [offset |-> 8, size |-> 2, type |-> "tone_u16le", unit |-> 0],
                 txTone |-> [offset |-> 10, size |-> 2, type |-> "tone_u16le", unit |-> 0]],
     flagMappings |-> << >>,
     emptyCheck |-> "rxFreq",
     defaults |-> [mode |-> "NFM", power |-> "High"]]

\* memoryFormat of RADIO_PROTOCOLS['baofeng-uv17pro'] (and
\* defaultFormats['baofeng-uv17pro'])
UV17ProMemoryFormat ==
    [channelSize |-> 32, numChannels |-> 1000, startOffset |-> 0,
     nameOffset |-> -1, nameSize |-> 0,
     fields |-> [rxFreq |-> [offset |-> 0, size |-> 4, type |-> "bcd", unit |-> 10],
                 txFreq |-> [offset |-> 4, size |-> 4, type |-> "bcd", unit |-> 10],
                 rxTone |-> [offset |-> 8, size |-> 2, type |-> "tone_u16le", unit |-> 0],
                 txTone |-> [offset |-> 10, size |-> 2, type |-> "tone_u16le", unit |-> 0],
                 flags1 |-> [offset |-> 14, size |-> 1, type |-> "byte", unit |-> 0],
                 flags2 |-> [offset |-> 15, size |-> 1, type |-> "byte", unit |-> 0],
                 name |-> [offset |-> 20, size |-> 12, type |-> "string", unit |-> 0]],
     flagMappings |-> << [name |-> "lowPower", field |-> "flags1", mask |-> 3,
                          shift |-> 0, invert |-> FALSE,
                          values |-> <<"High", "Med", "Low">>],
                         [name |-> "wide", field |-> "flags2", mask |-> 64,
                          shift |-> 6, invert |-> FALSE, values |-> <<"NFM", "FM">>],
                         [name |-> "scan", field |-> "flags2", mask |-> 4,
                          shift |-> 2, invert |-> FALSE, values |-> << >>] >>,
     emptyCheck |-> "rxFreq",
     defaults |-> << >>]

\* the memory-format descriptors the repository ships
FormatNames == {"baofeng-uv5r", "default:baofeng-uv5r", "h777", "baofeng-uv17pro"}

MemoryFormat(name) ==
    CASE name = "baofeng-uv5r" -> UV5RMemoryFormat
      [] name = "default:baofeng-uv5r" -> DefaultUV5RMemoryFormat
      [] name = "h777" -> H777MemoryFormat
      [] OTHER -> UV17ProMemoryFormat

\* new Memory(number)
Memory(number) ==
    [number |-> number, empty |-> TRUE, name |-> << >>, freq |-> 0, offset |-> 0,
     duplex |-> "", tmode |-> "", rtone |-> 0, ctone |-> 0, dtcs |-> 0,
     dtcsPolarity |-> << >>, mode |-> Str(""), skip |-> "", power |-> Str("")]

(***************************************************************************)
(* Decoding                                                                *)
(***************************************************************************)
RECURSIVE BcdAccumulate(_, _, _, _)
BcdAccumulate(bytes, at, i, value) ==
    IF i < 0 THEN value
    ELSE LET byte == bytes[at + i + 1] IN
         BcdAccumulate(bytes, at, i - 1,
                       value * 100 + (byte \div 16) * 10 + (byte % 16))

\* FieldParsers.bcd
FieldParsers_bcd(bytes, at, size, unit) ==
    BcdAccumulate(bytes, at, size - 1, 0) * unit

\* FieldParsers.byte
FieldParsers_byte(bytes, at) == bytes[at + 1]

\* FieldParsers.tone_u16le; polarity "" is an absent polarity
FieldParsers_tone_u16le(bytes, at) ==
    LET word == bytes[at + 1] + 256 * bytes[at + 2] IN
    IF word = 0 \/ word = 65535
    THEN [mode |-> "", value |-> 0, polarity |-> ""]
    ELSE IF word >= 32768
         THEN [mode |-> "DCS", value |-> word % 4096,
               polarity |-> IF (word \div 16384) % 2 = 1 THEN "R" ELSE "N"]
         ELSE [mode |-> "CTCSS", value |-> word, polarity |-> ""]

RECURSIVE StringChars(_, _, _, _)
StringChars(bytes, at, i, size) ==
    IF i >= size THEN << >>
    ELSE LET c == bytes[at + i + 1] IN
         IF c = 0 \/ c = 255 THEN << >>
         ELSE (IF c >= 32 /\ c < 127 THEN <<c>> ELSE << >>)
              \o StringChars(bytes, at, i + 1, size)

RECURSIVE TrimStart(_)
TrimStart(str) ==
    IF str # << >> /\ Head(str) = 32 THEN TrimStart(Tail(str)) ELSE str

RECURSIVE TrimEnd(_)
TrimEnd(str) ==
    IF str # << >> /\ str[Len(str)] = 32
    THEN TrimEnd(SubSeq(str, 1, Len(str) - 1)) ELSE str

\* FieldParsers.string
FieldParsers_string(bytes, at, size) ==
    TrimEnd(TrimStart(StringChars(bytes, at, 0, size)))

\* parseField; every field of a shipped descriptor lies inside its slot and
\* the slot was checked to fit, so the null return is never taken
parseField(bytes, baseOffset, fieldDef) ==
    LET at == baseOffset + fieldDef.offset IN
    CASE fieldDef.type = "bcd" -> FieldParsers_bcd(bytes, at, fieldDef.size, fieldDef.unit)
      [] fieldDef.type = "tone_u16le" -> FieldParsers_tone_u16le(bytes, at)
      [] fieldDef.type = "string" -> FieldParsers_string(bytes, at, fieldDef.size)
      [] OTHER -> FieldParsers_byte(bytes, at)

\* extractFlag
extractFlag(flagValue, mapping) ==
    LET shifted == BitAnd(flagValue \div (2 ^ mapping.shift), mapping.mask)
        value == IF mapping.invert THEN (IF shifted # 0 THEN 0 ELSE 1) ELSE shifted
    IN
    IF mapping.values # << >>
    THEN IF value < Len(mapping.values)
         THEN Str(mapping.values[value + 1]) ELSE Str(mapping.values[1])
    ELSE Num(value)

\* isChannelEmpty; the emptyCheck of every shipped descriptor names a bcd
\* field
isChannelEmpty(bytes, at, fmt) ==
    LET fieldDef == fmt.fields[fmt.emptyCheck]
        fieldOffset == at + fieldDef.offset
    IN
    \/ \A i \in 1..fieldDef.size : bytes[fieldOffset + i] = 255
    \/ \A i \in 1..fieldDef.size : bytes[fieldOffset + i] = 0

\* parseMemoryGeneric: the flag mappings from the k-th on
RECURSIVE ApplyFlagMappings(_, _, _, _, _)
ApplyFlagMappings(mem, bytes, at, fmt, k) ==
    IF k > Len(fmt.flagMappings) THEN mem
    ELSE LET mapping == fmt.flagMappings[k]
             flagValue == parseField(bytes, at, fmt.fields[mapping.field])
             extractedValue == extractFlag(flagValue, mapping)
             next == CASE mapping.name = "wide" ->
                              [mem EXCEPT !.mode = extractedValue]
                       [] mapping.name \in {"lowPower", "highPower"} ->
                              [mem EXCEPT !.power = extractedValue]
                       [] mapping.name = "scan" ->
                              [mem EXCEPT !.skip =
                                   IF Truthy(extractedValue) THEN "" ELSE "S"]
                       [] OTHER -> mem
         IN ApplyFlagMappings(next, bytes, at, fmt, k + 1)

\* parseMemoryGeneric: if (!mem[key]) mem[key] = value
ApplyDefaults(mem, defaults) ==
    LET withMode == IF "mode" \in DOMAIN defaults /\ ~Truthy(mem.mode)
                    THEN [mem EXCEPT !.mode = Str(defaults.mode)] ELSE mem
    IN IF "power" \in DOMAIN defaults /\ ~Truthy(withMode.power)
       THEN [withMode EXCEPT !.power = Str(defaults.power)] ELSE withMode

\* parseMemoryGeneric: the body of the channel loop for a slot in use
ParseChannel(bytes, fmt, i) ==
    LET at == fmt.startOffset + i * fmt.channelSize
        fields == fmt.fields
        rxFreq == parseField(bytes, at, fields.rxFreq)
        parsedTx == parseField(bytes, at, fields.txFreq)
        txFreq == IF parsedTx # 0 THEN parsedTx ELSE rxFreq
        name == IF "name" \in DOMAIN fields
                THEN parseField(bytes, at, fields.name) ELSE << >>
        rxTone == parseField(bytes, at, fields.rxTone)
        txTone == parseField(bytes, at, fields.txTone)
        withFreq ==
            [Memory(i + 1) EXCEPT
               !.empty = FALSE,
               !.freq = rxFreq,
               !.duplex = IF txFreq = rxFreq \/ txFreq = 0 THEN ""
                          ELSE IF txFreq > rxFreq THEN "+" ELSE "-",
               !.offset = IF txFreq = rxFreq \/ txFreq = 0 THEN 0
                          ELSE IF txFreq > rxFreq THEN txFreq - rxFreq
                          ELSE rxFreq - txFreq,
               !.name = name]
        withTones ==
            IF txTone.mode = "CTCSS"
            THEN IF rxTone.mode = "CTCSS"
                 THEN [withFreq EXCEPT !.tmode = "TSQL", !.rtone = txTone.value,
                                       !.ctone = rxTone.value]
                 ELSE [withFreq EXCEPT !.tmode = "Tone", !.rtone = txTone.value]
            ELSE IF txTone.mode = "DCS"
                 THEN [withFreq EXCEPT
                         !.tmode = "DTCS",
                         !.dtcs = txTone.value,
                         !.dtcsPolarity =
                             <<IF txTone.polarity # "" THEN txTone.polarity ELSE "N",
                               IF rxTone.polarity # "" THEN rxTone.polarity ELSE "N">>]
                 ELSE withFreq
    IN ApplyDefaults(ApplyFlagMappings(withTones, bytes, at, fmt, 1), fmt.defaults)

\* parseMemoryGeneric
parseMemoryGeneric(bytes, fmt) ==
    LET fitting == IF Len(bytes) < fmt.startOffset THEN 0
                   ELSE (Len(bytes) - fmt.startOffset) \div fmt.channelSize
        count == Min(fmt.numChannels, fitting)
        channels ==
            [i \in 1..count |->
               IF isChannelEmpty(bytes, fmt.startOffset + (i - 1) * fmt.channelSize, fmt)
               THEN Memory(i)
               ELSE ParseChannel(bytes, fmt, i - 1)]
    IN
    IF fmt.nameOffset # -1 /\ fmt.nameSize # 0
    THEN [i \in 1..count |->
            LET nameOffset == fmt.nameOffset + (i - 1) * fmt.nameSize
                name == FieldParsers_string(bytes, nameOffset, fmt.nameSize)
            IN
            IF ~channels[i].empty /\ nameOffset + fmt.nameSize <= Len(bytes)
               /\ name # << >>
            THEN [channels[i] EXCEPT !.name = name]
            ELSE channels[i]]
    ELSE channels

(***************************************************************************)
(* Encoding                                                                *)
(***************************************************************************)
\* variant: the BCD bytes are written most significant byte first
FieldSerializers_bcdBigEndian(value, size, unit) ==
    LET freq == (2 * value + unit) \div (2 * unit) IN
    [i \in 1..size |->
       LET rest == freq \div (100 ^ (size - i)) IN
       ((rest \div 10) % 10) * 16 + (rest % 10)]

\* FieldSerializers.bcd; Math.round(value / unit) of a value >= 0
FieldSerializers_bcd(value, size, unit) ==
    LET freq == (2 * value + unit) \div (2 * unit) IN
    [i \in 1..size |->
       LET rest == freq \div (100 ^ (i - 1)) IN
       ((rest \div 10) % 10) * 16 + (rest % 10)]

\* variant: the tone is written with a third byte
FieldSerializers_tone_u16le_3(toneInfo) ==
    LET value == IF toneInfo.mode = "CTCSS" THEN toneInfo.value
                 ELSE IF toneInfo.mode = "DCS"
                      THEN 32768 + (toneInfo.value % 4096)
                           + (IF toneInfo.polarity = "R" THEN 16384 ELSE 0)
                      ELSE 0
    IN <<value % 256, (value \div 256) % 256, value \div 65536>>

\* variant: the polarity bit is never set
FieldSerializers_tone_u16leNoPolarity(toneInfo) ==
    LET value == IF toneInfo.mode = "CTCSS" THEN toneInfo.value
                 ELSE IF toneInfo.mode = "DCS"
                      THEN 32768 + (toneInfo.value % 4096)
                      ELSE 0
    IN <<value % 256, (value \div 256) % 256>>

\* FieldSerializers.tone_u16le
FieldSerializers_tone_u16le(toneInfo) ==
    LET value == IF toneInfo.mode = "CTCSS" THEN toneInfo.value
                 ELSE IF toneInfo.mode = "DCS"
                      THEN 32768 + (toneInfo.value % 4096)
                           + (IF toneInfo.polarity = "R" THEN 16384 ELSE 0)
                      ELSE 0
    IN <<value % 256, (value \div 256) % 256>>

\* FieldSerializers.string with the default pad 0xFF
FieldSerializers_string(value, size) ==
    [i \in 1..size |-> IF i <= Len(value) THEN value[i] ELSE 255]

\* serializeField
serializeField(value, fieldDef) ==
    CASE fieldDef.type = "bcd" -> FieldSerializers_bcd(value, fieldDef.size, fieldDef.unit)
      [] fieldDef.type = "tone_u16le" -> FieldSerializers_tone_u16le(value)
      [] OTHER -> FieldSerializers_string(value, fieldDef.size)

\* result.set(bytes, at)
SetBytes(image, at, bytes) ==
    [k \in 1..Len(image) |->
       IF k > at /\ k <= at + Len(bytes) THEN bytes[k - at] ELSE image[k]]

\* mapping.values.indexOf(value), -1 when absent; a number equals no string
IndexOf(values, v) ==
    IF v.t = "string" /\ \E j \in 1..Len(values) : values[j] = v.s
    THEN (CHOOSE j \in 1..Len(values) :
             values[j] = v.s /\ \A h \in 1..(j - 1) : values[h] # v.s) - 1
    ELSE -1

\* serializeMemoryGeneric: the switch that picks the Memory property of a
\* mapping; the boolean of 'scan' is held as the number 1 or 0
FlagValue(mem, mappingName) ==
    CASE mappingName = "wide" -> mem.mode
      [] mappingName \in {"lowPower", "highPower"} -> mem.power
      [] OTHER -> Num(IF mem.skip # "S" THEN 1 ELSE 0)

\* buildFlagByte: the mappings of one flag field from the k-th on
RECURSIVE buildFlagByte(_, _, _, _)
buildFlagByte(originalByte, fieldFlagMappings, mem, k) ==
    IF k > Len(fieldFlagMappings) THEN originalByte
    ELSE LET mapping == fieldFlagMappings[k]
             given == FlagValue(mem, mapping.name)
             indexed == IF mapping.values # << >>
                        THEN Num(Max(IndexOf(mapping.values, given), 0))
                        ELSE given
             value == IF mapping.invert
                      THEN Num(IF Truthy(indexed) THEN 0 ELSE 1) ELSE indexed
             cleared == originalByte
                        - BitAnd(originalByte, mapping.mask * (2 ^ mapping.shift))
             setBits == BitAnd(ToInt32(value), mapping.mask \div (2 ^ mapping.shift))
                        * (2 ^ mapping.shift)
         IN buildFlagByte(BitOr(cleared, setBits), fieldFlagMappings, mem, k + 1)

\* serializeMemoryGeneric: the flag fields, in the order their first mapping
\* is declared, from mapping k on
RECURSIVE UpdateFlagFields(_, _, _, _, _)
UpdateFlagFields(image, mem, fmt, at, k) ==
    IF k > Len(fmt.flagMappings) THEN image
    ELSE LET fieldName == fmt.flagMappings[k].field
             first == \A h \in 1..(k - 1) : fmt.flagMappings[h].field # fieldName
             fieldFlagMappings ==
                 SelectSeq(fmt.flagMappings, LAMBDA m : m.field = fieldName)
             fieldOffset == at + fmt.fields[fieldName].offset
             newByte == buildFlagByte(image[fieldOffset + 1], fieldFlagMappings, mem, 1)
         IN UpdateFlagFields(
                IF first THEN SetBytes(image, fieldOffset, <<newByte % 256>>) ELSE image,
                mem, fmt, at, k + 1)

\* serializeMemoryGeneric: the writes of the channel loop's body for a channel
\* in use, on the bytes from offset at on
EncodeFields(image, mem, fmt, at) ==
    LET fields == fmt.fields
        withRx == IF mem.freq # 0
                  THEN SetBytes(image, at + fields.rxFreq.offset,
                                serializeField(mem.freq, fields.rxFreq))
                  ELSE image
        txFreq == IF mem.duplex = "+" THEN mem.freq + mem.offset
                  ELSE IF mem.duplex = "-" THEN mem.freq - mem.offset
                  ELSE mem.freq
        withTx == SetBytes(withRx, at + fields.txFreq.offset,
                           serializeField(txFreq, fields.txFreq))
        txToneInfo ==
            IF mem.tmode \in {"Tone", "TSQL"}
            THEN [mode |-> "CTCSS",
                  value |-> IF mem.rtone # 0 THEN mem.rtone ELSE 885,
                  polarity |-> ""]
            ELSE IF mem.tmode = "DTCS"
                 THEN [mode |-> "DCS",
                       value |-> IF mem.dtcs # 0 THEN mem.dtcs ELSE 23,
                       polarity |-> IF mem.dtcsPolarity # << >>
                                    THEN mem.dtcsPolarity[1] ELSE "N"]
                 ELSE [mode |-> "", value |-> 0, polarity |-> ""]
        withTxTone == SetBytes(withTx, at + fields.txTone.offset,
                               serializeField(txToneInfo, fields.txTone))
        rxToneInfo ==
            IF mem.tmode = "TSQL"
            THEN [mode |-> "CTCSS",
                  value |-> IF mem.ctone # 0 THEN mem.ctone
                            ELSE IF mem.rtone # 0 THEN mem.rtone ELSE 885,
                  polarity |-> ""]
            ELSE IF mem.tmode = "DTCS"
                 THEN [mode |-> "DCS",
                       value |-> IF mem.dtcs # 0 THEN mem.dtcs ELSE 23,
                       polarity |-> IF mem.dtcsPolarity # << >>
                                    THEN mem.dtcsPolarity[2] ELSE "N"]
                 ELSE [mode |-> "", value |-> 0, polarity |-> ""]
        withRxTone == SetBytes(withTxTone, at + fields.rxTone.offset,
                               serializeField(rxToneInfo, fields.rxTone))
        withName == IF "name" \in DOMAIN fields
                    THEN SetBytes(withRxTone, at + fields.name.offset,
                                  serializeField(mem.name, fields.name))
                    ELSE withRxTone
    IN UpdateFlagFields(withName, mem, fmt, at, 1)

\* serializeMemoryGeneric: the body of the channel loop for a channel in use;
\* every field of a shipped descriptor lies inside the slot, so the writes
\* are applied to the slot's bytes and the slot is put back
SerializeChannel(image, mem, fmt, at) ==
    SetBytes(image, at,
             EncodeFields(SubSeq(image, at + 1, at + fmt.channelSize), mem, fmt, 0))

\* variant: the first channel is encoded even when it is empty
SkipsChannelButFirst(mem) == mem.empty /\ mem.number # 1

\* serializeMemoryGeneric: if (mem.empty) continue
SkipsChannel(mem) == mem.empty

\* serializeMemoryGeneric: the indexes i the channel loop reaches before it
\* ends or breaks on a slot that does not fit
LoopIndexes(image, mems, fmt) ==
    LET numChannels == IF fmt.numChannels # 0 THEN fmt.numChannels ELSE Len(mems)
        fitting == IF Len(image) < fmt.startOffset THEN 0
                   ELSE (Len(image) - fmt.startOffset) \div fmt.channelSize
    IN 0..(Min(Min(Len(mems), numChannels), fitting) - 1)

\* the least index from i on whose channel the loops do not skip, -1 if none
NextEncoded(indexes, mems, i) ==
    LET todo == {h \in indexes : h >= i /\ ~SkipsChannel(mems[h + 1])} IN
    IF todo = {} THEN -1
    ELSE CHOOSE h \in todo : \A g \in todo : h <= g

\* serializeMemoryGeneric: the channel loop from index i on
RECURSIVE SerializeChannels(_, _, _, _)
SerializeChannels(image, mems, fmt, i) ==
    LET h == NextEncoded(LoopIndexes(image, mems, fmt), mems, i) IN
    IF h = -1 THEN image
    ELSE SerializeChannels(
             SerializeChannel(image, mems[h + 1], fmt,
                              fmt.startOffset + h * fmt.channelSize),
             mems, fmt, h + 1)

\* serializeMemoryGeneric: the loop over the separate name table from i on
RECURSIVE SerializeNames(_, _, _, _)
SerializeNames(image, mems, fmt, i) ==
    LET numChannels == IF fmt.numChannels # 0 THEN fmt.numChannels ELSE Len(mems)
        h == NextEncoded(0..(Min(Len(mems), numChannels) - 1), mems, i)
        nameOffset == fmt.nameOffset + h * fmt.nameSize
    IN
    IF h = -1 THEN image
    ELSE IF nameOffset + fmt.nameSize <= Len(image) /\ mems[h + 1].name # << >>
         THEN SerializeNames(
                  SetBytes(image, nameOffset,
                           FieldSerializers_string(mems[h + 1].name, fmt.nameSize)),
                  mems, fmt, h + 1)
         ELSE SerializeNames(image, mems, fmt, h + 1)

\* serializeMemoryGeneric
serializeMemoryGeneric(mems, originalData, fmt) ==
    LET channels == SerializeChannels(originalData, mems, fmt, 0) IN
    IF fmt.nameOffset # -1 /\ fmt.nameSize # 0
    THEN SerializeNames(channels, mems, fmt, 0)
    ELSE channels

(***************************************************************************)
(* Images the editor can be given, and what its dialog can save            *)
(***************************************************************************)
\* contents of a channel slot: the bytes of its fields, the byte between
\* the fields, the name and the byte the name is padded with.
\*   blank:    never written, every byte FF
\*   erased:   receive frequency zero, the other fields still set
\*   simplex:  146.520 MHz, no tone, flags clear, name padded with FF
\*   repeater: 146.520 MHz, transmit 600 kHz above, DCS 023 inverted on
\*             transmit, some flags set
\*   legacy:   146.520 MHz, transmit frequency zero, CTCSS 88.5 Hz on
\*             transmit, a DCS word with bit 13 set on receive, every flag
\*             set, name padded with 00
SlotContents ==
    { [rx |-> <<255, 255, 255, 255>>, tx |-> <<255, 255, 255, 255>>,
       txTone |-> <<255, 255>>, rxTone |-> <<255, 255>>, flags |-> 255,
       name |-> << >>, pad |-> 255, fill |-> 255],
      [rx |-> <<0, 0, 0, 0>>, tx |-> <<0, 32, 101, 20>>,
       txTone |-> <<117, 3>>, rxTone |-> <<117, 3>>, flags |-> 22,
       name |-> <<65, 66>>, pad |-> 0, fill |-> 165],
      [rx |-> <<0, 32, 101, 20>>, tx |-> <<0, 32, 101, 20>>,
       txTone |-> <<0, 0>>, rxTone |-> <<0, 0>>, flags |-> 0,
       name |-> <<65>>, pad |-> 255, fill |-> 165],
      [rx |-> <<0, 32, 101, 20>>, tx |-> <<0, 32, 113, 20>>,
       txTone |-> <<23, 192>>, rxTone |-> <<23, 128>>, flags |-> 68,
       name |-> <<82, 80, 84>>, pad |-> 255, fill |-> 90],
      [rx |-> <<0, 32, 101, 20>>, tx |-> <<0, 0, 0, 0>>,
       txTone |-> <<117, 3>>, rxTone |-> <<23, 160>>, flags |-> 255,
       name |-> <<65, 66>>, pad |-> 0, fill |-> 90] }

\* the name of contents c as stored in size bytes
NameBytes(c, size) ==
    [j \in 1..size |-> IF j <= Len(c.name) THEN c.name[j] ELSE c.pad]

\* byte k (from 0) of a slot of format fmt holding contents c
SlotByte(fmt, c, k) ==
    LET inField(f) == f \in DOMAIN fmt.fields
                      /\ k >= fmt.fields[f].offset
                      /\ k < fmt.fields[f].offset + fmt.fields[f].size
        j(f) == k - fmt.fields[f].offset + 1
    IN
    CASE inField("rxFreq") -> c.rx[j("rxFreq")]
      [] inField("txFreq") -> c.tx[j("txFreq")]
      [] inField("txTone") -> c.txTone[j("txTone")]
      [] inField("rxTone") -> c.rxTone[j("rxTone")]
      [] inField("flags") \/ inField("flags1") \/ inField("flags2") -> c.flags
      [] inField("name") -> NameBytes(c, fmt.fields.name.size)[j("name")]
      [] OTHER -> c.fill

\* an image of format fmt whose first slots hold the given contents: the
\* header, the slots, then either two more bytes (short) or, with a
\* separate name table, never-written bytes up to the table, the names of
\* the slots and two more bytes
Image(fmt, slots, long) ==
    LET slotsEnd == fmt.startOffset + Len(slots) * fmt.channelSize
        namesEnd == fmt.nameOffset + Len(slots) * fmt.nameSize
        length == IF long THEN namesEnd + 2 ELSE slotsEnd + 2
    IN
    [k \in 1..length |->
       LET b == k - 1 IN
       IF b < fmt.startOffset THEN 170
       ELSE IF b < slotsEnd
            THEN SlotByte(fmt,
                          slots[((b - fmt.startOffset) \div fmt.channelSize) + 1],
                          (b - fmt.startOffset) % fmt.channelSize)
       ELSE IF long /\ b >= fmt.nameOffset /\ b < namesEnd
            THEN NameBytes(slots[((b - fmt.nameOffset) \div fmt.nameSize) + 1],
                           fmt.nameSize)[((b - fmt.nameOffset) % fmt.nameSize) + 1]
       ELSE IF long /\ b < fmt.nameOffset THEN 255
       ELSE 238]

\* what the edit dialog can be saved with (the select lists TONE_MODES,
\* MODES, DUPLEX, SKIP_VALUES and the free-text name and power)
EditInputs ==
    { [name |-> <<67, 72>>, freq |-> 146520000, duplex |-> "+", offset |-> 600000,
       tmode |-> "TSQL", rtone |-> 885, ctone |-> 1000, dtcs |-> 0,
       mode |-> "FM", skip |-> "S", power |-> "Low"],
      [name |-> << >>, freq |-> 446000000, duplex |-> "split", offset |-> 146520000,
       tmode |-> "Cross", rtone |-> 885, ctone |-> 885, dtcs |-> 23,
       mode |-> "NFM", skip |-> "", power |-> "High"],
      [name |-> <<79, 70, 70>>, freq |-> 446000000, duplex |-> "off", offset |-> 0,
       tmode |-> "DTCS", rtone |-> 0, ctone |-> 0, dtcs |-> 23,
       mode |-> "NFM", skip |-> "P", power |-> "High"] }

\* no clone session has been started
EngineIdle ==
    /\ radio = "uv5r"
    /\ protocol = getRadioProtocol(radio)
    /\ op = "download"
    /\ pat = 0
    /\ rident = <<170, 48, 118, 4, 0, 5, 32, 221>>
    /\ pc = "idle"
    /\ connection = "none"
    /\ aborted = FALSE
    /\ identification = [set |-> FALSE, bytes |-> << >>]
    /\ buffer = << >>
    /\ data = << >>
    /\ io = << >>
    /\ idx = 0
    /\ got = 0
    /\ region = 0
    /\ offset = 0
    /\ chunk = << >>
    /\ progress = [message |-> "", percent |-> 0]
    /\ outcome = NoOutcome
    /\ lastAck = << >>
    /\ abortPhase = "no"

(***************************************************************************)
(* The editor: open an image, decode, edit, encode, decode again           *)
(***************************************************************************)
CodecInit ==
    /\ EngineIdle
    /\ cformat \in FormatNames
    /\ \E slots \in [1..Channels -> SlotContents],
          long \in (IF MemoryFormat(cformat).nameOffset # -1
                    THEN {FALSE, TRUE} ELSE {FALSE}) :
         raw = Image(MemoryFormat(cformat), slots, long)
    /\ memories = << >>
    /\ edited = 0
    /\ result = << >>
    /\ reparsed = << >>
    /\ cpc = "raw"
    /\ UnitsIdle

EngineUnchanged ==
    UNCHANGED <<protocol, radio, op, pat, rident, pc, connection, aborted,
                identification, buffer, data, io, idx, got, region, offset, chunk,
                progress, outcome, lastAck, abortPhase>>

\* parseRadioMemory
Parse ==
    /\ cpc = "raw"
    /\ memories' = parseMemoryGeneric(raw, MemoryFormat(cformat))
    /\ cpc' = "parsed"
    /\ UNCHANGED <<cformat, raw, edited, result, reparsed>>
    /\ EngineUnchanged
    /\ UNCHANGED unitVars

\* saveEditDialog on a channel in use
Edit ==
    /\ cpc = "parsed"
    /\ edited = 0
    /\ \E location \in 1..Len(memories), e \in EditInputs :
         /\ ~memories[location].empty
         /\ memories' =
              [memories EXCEPT ![location] =
                 [@ EXCEPT !.name = e.name, !.freq = e.freq, !.duplex = e.duplex,
                           !.offset = e.offset, !.tmode = e.tmode, !.rtone = e.rtone,
                           !.ctone = e.ctone, !.dtcs = e.dtcs, !.mode = Str(e.mode),
                           !.skip = e.skip, !.power = Str(e.power),
                           !.empty = (e.freq = 0)]]
         /\ edited' = location
    /\ UNCHANGED <<cformat, raw, result, reparsed, cpc>>
    /\ EngineUnchanged
    /\ UNCHANGED unitVars

\* serializeRadioMemory over the image that was decoded
Serialize ==
    /\ cpc = "parsed"
    /\ result' = serializeMemoryGeneric(memories, raw, MemoryFormat(cformat))
    /\ cpc' = "serialized"
    /\ UNCHANGED <<cformat, raw, memories, edited, reparsed>>
    /\ EngineUnchanged
    /\ UNCHANGED unitVars

\* parseRadioMemory of the encoded image
Reparse ==
    /\ cpc = "serialized"
    /\ reparsed' = parseMemoryGeneric(result, MemoryFormat(cformat))
    /\ cpc' = "reparsed"
    /\ UNCHANGED <<cformat, raw, memories, edited, result>>
    /\ EngineUnchanged
    /\ UNCHANGED unitVars

CodecNext ==
    \/ Parse
    \/ Edit
    \/ Serialize
    \/ Reparse

CodecSpec == CodecInit /\ [][CodecNext]_vars

(***************************************************************************)
(* Claims about the codec                                                  *)
(***************************************************************************)
Encoded == cpc \in {"serialized", "reparsed"}

\* the bytes of channel slot i (from 1) of an image
SlotOf(image, fmt, i) ==
    SubSeq(image, fmt.startOffset + (i - 1) * fmt.channelSize + 1,
           fmt.startOffset + i * fmt.channelSize)

\* C11: decoding an image and encoding the unedited channels over it gives
\* the image back, byte for byte
C11_RoundTripIdentity ==
    (Encoded /\ edited = 0) => result = raw

HasMapping(fmt, mappingName) ==
    \E k \in 1..Len(fmt.flagMappings) : fmt.flagMappings[k].name = mappingName

\* the values array of the mapping of that name
DeclaredValues(fmt, mappingName) ==
    LET k == CHOOSE k \in 1..Len(fmt.flagMappings) :
                 fmt.flagMappings[k].name = mappingName
    IN {fmt.flagMappings[k].values[j] : j \in 1..Len(fmt.flagMappings[k].values)}

\* the descriptor stores names, in the slot or in a table the image reaches
StoresName(fmt, image, i) ==
    \/ "name" \in DOMAIN fmt.fields
    \/ fmt.nameOffset # -1 /\ fmt.nameOffset + i * fmt.nameSize <= Len(image)

\* C12: a channel in use, saved with any value of the fields' domains and
\* encoded, decodes to the same value on every field the descriptor declares
C12_DecodeEncode ==
    (cpc = "reparsed" /\ edited # 0)
    => LET fmt == MemoryFormat(cformat)
           ch == memories[edited]
           back == reparsed[edited]
       IN
       /\ ~back.empty
       /\ back.freq = ch.freq
       /\ back.duplex = ch.duplex
       /\ back.offset = ch.offset
       /\ back.tmode = ch.tmode
       /\ ch.tmode \in {"Tone", "TSQL"} => back.rtone = ch.rtone
       /\ ch.tmode = "TSQL" => back.ctone = ch.ctone
       /\ ch.tmode = "DTCS" => back.dtcs = ch.dtcs
       /\ StoresName(fmt, raw, edited) => back.name = ch.name
       /\ (HasMapping(fmt, "wide") /\ ch.mode.s \in DeclaredValues(fmt, "wide"))
          => back.mode = ch.mode
       /\ (HasMapping(fmt, "lowPower") /\ ch.power.s \in DeclaredValues(fmt, "lowPower"))
          => back.power = ch.power
       /\ (HasMapping(fmt, "highPower") /\ ch.power.s \in DeclaredValues(fmt, "highPower"))
          => back.power = ch.power
       /\ (HasMapping(fmt, "scan") /\ ch.skip \in {"", "S"})
          => back.skip = ch.skip

\* C13: after decoding and encoding, whether or not another channel was
\* edited in between, every byte of a slot that decoded as empty is the
\* byte of the image that was decoded
C13_EmptySlotsUntouched ==
    Encoded
    => \A i \in 1..Len(memories) :
         memories[i].empty
         => SlotOf(result, MemoryFormat(cformat), i)
              = SlotOf(raw, MemoryFormat(cformat), i)

\* a channel was edited and encoded next to a slot that decoded as empty
\* although some of its bytes had been written
C13_Witness ==
    /\ cpc = "serialized"
    /\ edited # 0
    /\ result # raw
    /\ \E i \in 1..Len(memories) :
         /\ memories[i].empty
         /\ \E k \in 1..MemoryFormat(cformat).channelSize :
              SlotOf(raw, MemoryFormat(cformat), i)[k] # 255

\* byte b (from 0) lies in a declared field of a channel slot, or in the
\* separate name table
InDeclaredRange(fmt, b) ==
    \/ /\ b >= fmt.startOffset
       /\ (b - fmt.startOffset) \div fmt.channelSize < fmt.numChannels
       /\ \E f \in DOMAIN fmt.fields :
            LET within == (b - fmt.startOffset) % fmt.channelSize IN
            /\ within >= fmt.fields[f].offset
            /\ within < fmt.fields[f].offset + fmt.fields[f].size
    \/ /\ fmt.nameOffset # -1
       /\ b >= fmt.nameOffset
       /\ (b - fmt.nameOffset) \div fmt.nameSize < fmt.numChannels

\* C14: after decoding and encoding, the image has the length it had and
\* every byte outside the declared field ranges (channel fields and
\* separate name table) is the byte of the image that was decoded
C14_OutsideFieldsUntouched ==
    Encoded
    => /\ Len(result) = Len(raw)
       /\ \A k \in 1..Len(raw) :
            ~InDeclaredRange(MemoryFormat(cformat), k - 1) => result[k] = raw[k]

\* an unedited image was encoded, the encoding changed some byte, and the
\* image has bytes outside the declared ranges that differ from FF
C14_Witness ==
    /\ cpc = "serialized"
    /\ edited = 0
    /\ result # raw
    /\ \E k \in 1..Len(raw) :
         ~InDeclaredRange(MemoryFormat(cformat), k - 1) /\ raw[k] # 255

\* ---------------------------------------------------------------------
\* Block framing, progress and transport claims (engine specification)
\* ---------------------------------------------------------------------

\* the read request at position j of the log has been answered in full:
\* the engine went on to write its block ACK or the next request
Answered(j) == \E i \in j + 1..Len(io) : io[i].dir = "w"

\* C21: for every descriptor of the standard (non-prefix-stripping) read
\* variant the engine consumes exactly 4 + size bytes per block response:
\* a read of a 4-byte header follows each read request, then a read of
\* size data bytes, and an answered block adds only its size data bytes
\* to the image.
C21_StandardResponseIs4PlusSize ==
    (op = "download" /\ ~protocol.read.skipHeaderValidation) =>
        \A j \in RequestIndexes(io) :
            /\ j < Len(io) =>
                    /\ io[j + 1].dir = "r"
                    /\ io[j + 1].kind = "header"
                    /\ io[j + 1].want = 4
            /\ Answered(j) =>
                    /\ Len(io[j + 1].bytes) = 4
                    /\ io[j + 2].dir = "r"
                    /\ io[j + 2].kind = "data"
                    /\ io[j + 2].want = io[j].bytes[4]
                    /\ Len(io[j + 2].bytes) = io[j].bytes[4]

\* C22: every read request written is exactly the 4 bytes
\* [cmd, addr_hi, addr_lo, size] and every write request exactly the
\* 4 + size bytes [cmd, addr_hi, addr_lo, size, data]: the address bytes
\* are the block's address in big-endian order and size is the number of
\* data bytes requested (read) or carried (write).
C22_RequestFrames ==
    [][ (io' # io /\ Len(io') > 0 /\ IsRequest(io'[Len(io')])) =>
            LET e == io'[Len(io')]
                hi == offset' \div 256
                lo == offset' % 256
            IN /\ offset' < 65536
               /\ IF e.kind = "readReq"
                  THEN /\ CurSize' < 256
                       /\ e.bytes = <<protocol.read.cmd, hi, lo, CurSize'>>
                  ELSE /\ Len(chunk') < 256
                       /\ Len(e.bytes) = 4 + Len(chunk')
                       /\ e.bytes = <<protocol.write.cmd, hi, lo, Len(chunk')>>
                                        \o chunk'
       ]_vars

\* requests with a two-byte address were written: the second read request
\* of an aux region whose address has both bytes non-zero and different
C22_Witness ==
    /\ op = "download"
    /\ ReqCount(io) >= 2
    /\ io[Len(io)].kind = "readReq"
    /\ io[Len(io)].bytes[2] # 0
    /\ io[Len(io)].bytes[3] # 0
    /\ io[Len(io)].bytes[2] # io[Len(io)].bytes[3]

\* a step in which a block transfer finished and the loop went on to the
\* next block (the step writes the next request)
BlockTransferred ==
    /\ pc \in {"rd_data", "rd_skip", "rd_delay", "wr_ack"}
    /\ ReqCount(io') = ReqCount(io) + 1

\* bytes of blocks transferred so far
BytesTransferred ==
    IF protocol.memoryLayout.regions # << >> THEN got
    ELSE IF op = "download"
    THEN Len(buffer) - Len(ImageHeader(protocol, identification))
    ELSE offset - UploadMainStart(protocol)

\* the byte budgets a percent of the layout may be taken over: the regions'
\* total, or the main region with or without the aux region
Budgets ==
    LET p == protocol
        aux == p.memoryLayout.auxEnd - p.memoryLayout.auxStart
    IN IF p.memoryLayout.regions # << >>
       THEN {TotalSize(p, IF op = "download" THEN p.memSize ELSE Len(data))}
       ELSE IF op = "download"
       THEN {DownloadMainEnd(p) - p.memoryLayout.mainStart,
             DownloadMainEnd(p) - p.memoryLayout.mainStart + aux}
       ELSE {UploadMainEnd(p, data) - UploadMainStart(p)}

\* C23: after every block transferred (main, aux and every region, download
\* and upload) a progress event is emitted whose percent is computed from
\* the bytes transferred so far, the block just transferred included, over
\* the layout's total byte budget.
C23_ProgressAfterEveryBlock ==
    [][ BlockTransferred =>
            \E budget \in Budgets, scale \in {80, 85} :
                progress'.percent = Percent(10, scale, BytesTransferred', budget)
       ]_vars

(***************************************************************************)
(* The obfuscation and checksum methods as a caller uses them: a buffer is  *)
(* obfuscated and deobfuscated again, or gets its checksum added and is     *)
(* verified, after the line changed one of its data bytes or not.           *)
(***************************************************************************)
MaxData == 3
MaxTone == 2541
MaxDcs == 754

CalcInit ==
    /\ EngineIdle
    /\ CodecIdle
    /\ \/ \E method \in {"uv17pro", "wouxunEncrypt", "wouxunDecrypt",
                       "sum", "xor", "yaesu"},
          bytes \in UNION { [1..n -> {0, 66, 189, 255}] : n \in 0..MaxData }
                      \cup { [i \in 1..4 |-> x] : x \in 0..255 },
          symbolIndex \in 0..19, valxor \in {0, 87, 255}, sumOffset \in {0, 7} :
         /\ method # "uv17pro" => symbolIndex = 0
         /\ method \notin {"wouxunEncrypt", "wouxunDecrypt"} => valxor = 0
         /\ method # "sum" => sumOffset = 0
         /\ calc = [method |-> method, input |-> bytes,
                    options |->
                        [symbolIndex |-> symbolIndex, valxor |-> valxor,
                         offset |-> sumOffset, start |-> 0,
                         stop |-> IF method = "yaesu" THEN Len(bytes) - 1 ELSE 0,
                         address |-> IF method = "yaesu" THEN Len(bytes) ELSE 0],
                    output |-> << >>, final |-> << >>, valid |-> FALSE,
                    step |-> "input"]
       \* the two bytes of a tone field, or a tone as the encoder is given it:
       \* none, a CTCSS tone in tenths of Hz (the standard tones are 67.0 to
       \* 254.1 Hz) or a DCS code (the standard codes are 23 to 754) with its
       \* polarity
       \/ \E method \in {"toneDecode", "toneEncode"},
             bytes \in [1..2 -> {0, 3, 23, 64, 117, 127, 128, 160, 192, 255}],
             toneInfo \in {[mode |-> "", value |-> 0, polarity |-> ""]}
                          \cup [mode : {"CTCSS"}, value : 670..MaxTone, polarity : {""}]
                          \cup [mode : {"DCS"}, value : 1..MaxDcs, polarity : {"N", "R"}] :
            /\ method = "toneDecode" => toneInfo.mode = ""
            /\ method = "toneEncode" => bytes = <<0, 0>>
            /\ calc = [method |-> method,
                       input |-> IF method = "toneDecode" THEN bytes ELSE toneInfo,
                       options |-> [symbolIndex |-> 0, valxor |-> 0, offset |-> 0,
                                    start |-> 0, stop |-> 0, address |-> 0],
                       output |-> << >>, final |-> << >>, valid |-> FALSE,
                       step |-> "input"]
    /\ serial = [length |-> 0, buf |-> << >>, returned |-> << >>, sent |-> 0,
                 step |-> "closed"]
    /\ app = [serialConnection |-> 0,
              at |-> [s \in 1..2 |-> "idle"],
              conn |-> [s \in 1..2 |-> [port |-> 0, connected |-> FALSE]],
              clone |-> [s \in 1..2 |-> 0],
              ports |-> [q \in 1..2 |-> "closed"],
              wire |-> << >>]
    /\ currentImage = [memoryBounds |-> <<1, 0>>, memories |-> << >>,
                       before |-> << >>,
                       last |-> [op |-> "", memory |-> << >>, from |-> 0,
                                 to |-> 0, error |-> FALSE]]

\* encryptUV17Pro / decryptUV17Pro / wouxunCrypt on the buffer: the first
\* call obfuscates the input, the second is the opposite call on its result
Crypt ==
    /\ calc.method \in {"uv17pro", "wouxunEncrypt", "wouxunDecrypt"}
    /\ calc.step \in {"input", "output"}
    /\ LET first == calc.step = "input"
           arg == IF first THEN calc.input ELSE calc.output
           value == IF calc.method = "uv17pro"
                    THEN IF first
                         THEN encryptUV17Pro(arg, calc.options.symbolIndex)
                         ELSE decryptUV17Pro(arg, calc.options.symbolIndex)
                    ELSE wouxunCrypt(arg, calc.options.valxor,
                                     (calc.method = "wouxunDecrypt") = first)
       IN calc' = IF first
                  THEN [calc EXCEPT !.output = value, !.step = "output"]
                  ELSE [calc EXCEPT !.final = value, !.step = "done"]
    /\ EngineUnchanged
    /\ UNCHANGED <<codecVars, serial, app, currentImage>>

\* addChecksum(data, checksumType, options)
AddChecksum ==
    /\ calc.method \in {"sum", "xor", "yaesu"}
    /\ calc.step = "input"
    /\ calc' = [calc EXCEPT
                   !.output = addChecksum(calc.input, calc.method, calc.options),
                   !.step = "output"]
    /\ EngineUnchanged
    /\ UNCHANGED <<codecVars, serial, app, currentImage>>

\* one data byte of the checksummed buffer changes its value on the way
ChangeByte ==
    /\ calc.method \in {"sum", "xor", "yaesu"}
    /\ calc.step = "output"
    /\ \E i \in 1..Len(calc.input), b \in {0, 1, 66, 255} :
         /\ b # calc.output[i]
         /\ calc' = [calc EXCEPT !.output[i] = b, !.step = "changed"]
    /\ EngineUnchanged
    /\ UNCHANGED <<codecVars, serial, app, currentImage>>

\* verifyChecksum(data, checksumType, options)
VerifyChecksum ==
    /\ calc.method \in {"sum", "xor", "yaesu"}
    /\ calc.step \in {"output", "changed"}
    /\ calc' = [calc EXCEPT
                   !.valid = verifyChecksum(calc.output, calc.method, calc.options),
                   !.step = IF calc.step = "output" THEN "verified"
                            ELSE "verifiedChanged"]
    /\ EngineUnchanged
    /\ UNCHANGED <<codecVars, serial, app, currentImage>>

\* FieldParsers.tone_u16le / FieldSerializers.tone_u16le on a tone field: the
\* first call converts the input, the second is the opposite call on its
\* result
ToneCodec ==
    /\ calc.method \in {"toneDecode", "toneEncode"}
    /\ calc.step \in {"input", "converted"}
    /\ LET first == calc.step = "input"
           arg == IF first THEN calc.input ELSE calc.output
           value == IF (calc.method = "toneDecode") = first
                    THEN FieldParsers_tone_u16le(arg, 0)
                    ELSE FieldSerializers_tone_u16le(arg)
       IN calc' = IF first
                  THEN [calc EXCEPT !.output = value, !.step = "converted"]
                  ELSE [calc EXCEPT !.final = value, !.step = "restored"]
    /\ EngineUnchanged
    /\ UNCHANGED <<codecVars, serial, app, currentImage>>

CalcNext ==
    \/ Crypt
    \/ AddChecksum
    \/ ChangeByte
    \/ VerifyChecksum
    \/ ToneCodec

CalcSpec == CalcInit /\ [][CalcNext]_vars

\* C24: obfuscation involution: applying the UV17 keyed XOR twice with the
\* same key row returns the buffer, for each of the 20 rows; and the Wouxun
\* chain forward after reverse, and reverse after forward, with the same
\* init byte return the buffer.
C24_ObfuscationInvolution ==
    calc.step = "done" => calc.final = calc.input

\* a buffer the keyed XOR changed was restored by the second call, and so
\* was one the Wouxun chain changed
C24_Witness ==
    /\ calc.step = "done"
    /\ calc.method = "uv17pro"
    /\ calc.options.symbolIndex = 19
    /\ Len(calc.input) = 4
    /\ calc.output[1] # calc.input[1]
    /\ calc.output[4] # calc.input[4]
    /\ calc.final = calc.input

\* C25: checksum correctness: for each checksum kind (sum, xor, range-sum)
\* verifying the result of adding the checksum to any data returns true,
\* and after the value of any single data byte changed it returns false.
C25_ChecksumCorrect ==
    /\ calc.step = "verified" => calc.valid
    /\ calc.step = "verifiedChanged" => ~calc.valid

(***************************************************************************)
(* SerialConnection.read(length, timeout) on an open port.  The port hands  *)
(* the bytes the radio sent to reader.read() in chunks of its own choosing. *)
(***************************************************************************)
MaxChunk == 3
MaxSent == 5
MaxReads == 3

ReadInit ==
    /\ EngineIdle
    /\ CodecIdle
    /\ calc = [method |-> "", input |-> << >>,
               options |-> [symbolIndex |-> 0, valxor |-> 0, offset |-> 0,
                            start |-> 0, stop |-> 0, address |-> 0],
               output |-> << >>, final |-> << >>, valid |-> FALSE,
               step |-> "idle"]
    /\ serial = [length |-> 0, buf |-> << >>, returned |-> << >>, sent |-> 0,
                 step |-> "open"]
    /\ app = [serialConnection |-> 0,
              at |-> [s \in 1..2 |-> "idle"],
              conn |-> [s \in 1..2 |-> [port |-> 0, connected |-> FALSE]],
              clone |-> [s \in 1..2 |-> 0],
              ports |-> [q \in 1..2 |-> "closed"],
              wire |-> << >>]
    /\ currentImage = [memoryBounds |-> <<1, 0>>, memories |-> << >>,
                       before |-> << >>,
                       last |-> [op |-> "", memory |-> << >>, from |-> 0,
                                 to |-> 0, error |-> FALSE]]

\* read(length, timeout) is called: getReader(), buffer = [], totalRead = 0
ReadCall ==
    /\ serial.step = "open"
    /\ Len(serial.returned) < MaxReads
    /\ \E length \in 1..MaxChunk :
         serial' = [serial EXCEPT !.length = length, !.buf = << >>,
                                  !.step = "reading"]
    /\ EngineUnchanged
    /\ UNCHANGED <<codecVars, calc, app, currentImage>>

\* reader.read() wins the race with a chunk: push it; when totalRead >=
\* length return buffer.slice(0, length), else go round the loop
ReaderRead ==
    /\ serial.step = "reading"
    /\ \E k \in 1..MaxChunk :
         /\ serial.sent + k <= MaxSent
         /\ LET value == [i \in 1..k |-> serial.sent + i]
                got2 == serial.buf \o value
            IN serial' =
                 IF Len(got2) >= serial.length
                 THEN [serial EXCEPT
                         !.returned =
                             Append(@, [bytes |-> Slice(got2, 0, serial.length),
                                        length |-> serial.length]),
                         !.buf = << >>, !.length = 0, !.sent = @ + k,
                         !.step = "open"]
                 ELSE [serial EXCEPT !.buf = got2, !.sent = @ + k]
    /\ EngineUnchanged
    /\ UNCHANGED <<codecVars, calc, app, currentImage>>

\* the deadline passes first (the loop's own test, or the race lost to the
\* timer, which counts as done): break, release the reader, return
\* buffer.slice(0, length)
ReadTimeout ==
    /\ serial.step = "reading"
    /\ serial' = [serial EXCEPT
                     !.returned =
                         Append(@, [bytes |-> Slice(serial.buf, 0, serial.length),
                                    length |-> serial.length]),
                     !.buf = << >>, !.length = 0, !.step = "open"]
    /\ EngineUnchanged
    /\ UNCHANGED <<codecVars, calc, app, currentImage>>

ReadNext ==
    \/ ReadCall
    \/ ReaderRead
    \/ ReadTimeout

ReadSpec == ReadInit /\ [][ReadNext]_vars

\* C26: the exact read either returns exactly n bytes or fails with a
\* timeout error; it never returns successfully with fewer than n bytes.
\* (Every entry of serial.returned is a successful return.)
C26_ExactOrTimeout ==
    \A i \in 1..Len(serial.returned) :
        Len(serial.returned[i].bytes) = serial.returned[i].length

\* the bytes the reads returned so far, in the order of the reads
RECURSIVE Returned(_)
Returned(n) ==
    IF n = 0 THEN << >> ELSE Returned(n - 1) \o serial.returned[n].bytes

\* C27: the transport is bit-exact across consecutive reads: the bytes the
\* port delivered reach the caller exactly once and in arrival order; the
\* surplus of a chunk larger than the read asked for is returned by the
\* following reads and never dropped.
C27_NothingDropped ==
    Returned(Len(serial.returned)) \o serial.buf
        = [i \in 1..serial.sent |-> i]

(***************************************************************************)
(* doRadioDownload / doRadioUpload as the App runs them: two operations     *)
(* (s = 1, 2) the user may start from the menu, each suspended at its       *)
(* awaits, sharing the field app.serialConnection.                          *)
(***************************************************************************)
MaxFrames == 2

AppInit ==
    /\ EngineIdle
    /\ CodecIdle
    /\ UnitsIdle

\* the finally block of operation s, entered from state a of the App:
\* if (this.serialConnection) { close(); this.serialConnection = null }
RunFinally(a, s) ==
    LET t == a.serialConnection IN
    IF t = 0 THEN [a EXCEPT !.at[s] = "done"]
    ELSE IF a.conn[t].port = 0
    THEN [a EXCEPT !.conn[t].connected = FALSE,
                   !.serialConnection = 0, !.at[s] = "done"]
    ELSE [a EXCEPT !.ports[a.conn[t].port] = "closed",
                   !.conn[t] = [port |-> 0, connected |-> FALSE],
                   !.serialConnection = 0, !.at[s] = "done"]

\* this.serialConnection = new SerialConnection(); requestPort() is pending.
\* The menu stays usable during an operation; only the browser's port
\* chooser, while it is shown, keeps the user from starting another one.
Begin ==
    /\ \E s \in 1..2 :
         /\ app.at[s] = "idle"
         /\ \A t \in 1..2 : app.at[t] # "picker"
         /\ app' = [app EXCEPT !.serialConnection = s,
                                !.conn[s] = [port |-> 0, connected |-> FALSE],
                                !.at[s] = "picker"]
    /\ EngineUnchanged
    /\ UNCHANGED <<codecVars, calc, serial, currentImage>>

\* requestPort() resolves: false (cancelled: return, through finally), or
\* port q was set on the object; then this.serialConnection.open(...) on
\* whatever the field holds now: a TypeError on null, 'No port selected',
\* the port's own error when it is open already (each caught, then finally),
\* else the port opens
PortPicked ==
    /\ \E s \in 1..2, q \in 0..2 :
         /\ app.at[s] = "picker"
         /\ LET t == app.serialConnection
                picked == [app EXCEPT !.conn[s].port = q]
            IN app' =
                 IF q = 0 THEN RunFinally(app, s)
                 ELSE IF t = 0 \/ picked.conn[t].port = 0
                         \/ app.ports[picked.conn[t].port] = "open"
                 THEN RunFinally(picked, s)
                 ELSE [picked EXCEPT !.ports[picked.conn[t].port] = "open",
                                     !.conn[t].connected = TRUE,
                                     !.at[s] = "opened"]
    /\ EngineUnchanged
    /\ UNCHANGED <<codecVars, calc, serial, currentImage>>

\* after the delay: clone = new RadioClone(this.serialConnection);
\* clone.download / clone.upload starts
CreateClone ==
    /\ \E s \in 1..2 :
         /\ app.at[s] = "opened"
         /\ app' = [app EXCEPT !.clone[s] = app.serialConnection,
                                !.at[s] = "transfer"]
    /\ EngineUnchanged
    /\ UNCHANGED <<codecVars, calc, serial, currentImage>>

\* the clone exchanges a frame on its connection, or the transfer ends: it
\* returns, or throws (connection.write throws on null, when not connected,
\* and on a closed port), and the operation goes through finally
Exchange ==
    /\ \E s \in 1..2, ends \in BOOLEAN :
         /\ app.at[s] = "transfer"
         /\ LET c == app.clone[s]
                usable == /\ c # 0
                          /\ app.conn[c].connected
                          /\ app.conn[c].port # 0
                          /\ app.ports[app.conn[c].port] = "open"
            IN app' =
                 IF ends \/ ~usable \/ Len(app.wire) >= MaxFrames
                 THEN RunFinally(app, s)
                 ELSE [app EXCEPT !.wire = Append(@, [session |-> s,
                                                     port |-> app.conn[c].port])]
    /\ EngineUnchanged
    /\ UNCHANGED <<codecVars, calc, serial, currentImage>>

AppNext ==
    \/ Begin
    \/ PortPicked
    \/ CreateClone
    \/ Exchange

AppSpec == AppInit /\ [][AppNext]_vars

\* operation s is in progress
InProgress(s) == app.at[s] \in {"picker", "opened", "transfer"}

\* C28: at most one clone session is active at a time and sessions do not
\* share a transport: two operations never exchange frames side by side;
\* the cleanup of one operation neither closes nor clears the connection of
\* another that is in progress; and when an operation is over its
\* connection is closed (no port left open) before the next one opens one.
C28_OneSessionPerTransport ==
    [][ /\ ~(app.at[1] = "transfer" /\ app.at[2] = "transfer")'
        /\ \A s \in 1..2 :
              (app.at[s] # "done" /\ app'.at[s] = "done") =>
                  \A t \in 1..2 \ {s} :
                      InProgress(t) =>
                          /\ app'.conn[t] = app.conn[t]
                          /\ app.serialConnection = t
                                => app'.serialConnection = t
        /\ (\A s \in 1..2 : app'.at[s] \in {"idle", "done"}) =>
              \A q \in 1..2 : app'.ports[q] = "closed"
      ]_vars

(***************************************************************************)
(* Claims about the codec: flag bits and tone reconciliation                *)
(***************************************************************************)
\* the bits of the flag byte a mapping selects: its mask taken in place, or
\* taken as the mask of the shifted value
SelectedBits(mapping, inPlace) ==
    IF inPlace THEN mapping.mask ELSE (mapping.mask * (2 ^ mapping.shift)) % 256

\* the bits the mappings of one flag field select together
RECURSIVE FieldBits(_, _, _, _)
FieldBits(fmt, fieldName, inPlace, k) ==
    IF k > Len(fmt.flagMappings) THEN 0
    ELSE LET rest == FieldBits(fmt, fieldName, inPlace, k + 1) IN
         IF fmt.flagMappings[k].field = fieldName
         THEN BitOr(SelectedBits(fmt.flagMappings[k], inPlace), rest)
         ELSE rest

\* the value of a mapping that encoding a channel stores, as decoding
\* returns it; "none" where the channel's value is not one the mapping
\* declares
StoredFlag(mem, mapping) ==
    LET given == FlagValue(mem, mapping.name) IN
    IF mapping.values # << >>
    THEN IF given.t = "string"
            /\ \E j \in 1..Len(mapping.values) : mapping.values[j] = given.s
         THEN given ELSE Str("none")
    ELSE IF given.t = "number" /\ ~mapping.invert THEN given ELSE Str("none")

\* C29: for every flag mapping, encoding clears exactly the bits the
\* mapping selects in the current byte and sets them to the new value,
\* leaving every other bit of the byte as it was, and decoding reads the
\* value back from the same bits: the flag value encoded is the value
\* decoded.  (Whichever of the two ways the mask is read.)
C29_FlagBitsRoundTrip ==
    Encoded
    => LET fmt == MemoryFormat(cformat) IN
       \A i \in 1..Len(memories), k \in 1..Len(fmt.flagMappings) :
           ~SkipsChannel(memories[i])
           => LET mapping == fmt.flagMappings[k]
                  at == fmt.startOffset + (i - 1) * fmt.channelSize
                          + fmt.fields[mapping.field].offset + 1
                  stored == StoredFlag(memories[i], mapping)
              IN \E inPlace \in BOOLEAN :
                   LET others == 255 - FieldBits(fmt, mapping.field, inPlace, 1)
                   IN /\ BitAnd(result[at], others) = BitAnd(raw[at], others)
                      /\ stored # Str("none")
                            => extractFlag(result[at], mapping) = stored

\* C30: decode reconciles the two tone fields: TX CTCSS with RX none gives
\* Tone; TX CTCSS with RX CTCSS gives TSQL storing both tones; TX DCS with
\* RX DCS of the same code gives DTCS with the polarity taken from the TX
\* and RX polarity bits; every other combination in which at least one
\* side carries a tone gives Cross.
C30_ToneReconciliation ==
    (cpc \in {"parsed", "serialized", "reparsed"} /\ edited = 0)
    => LET fmt == MemoryFormat(cformat) IN
       \A i \in 1..Len(memories) :
           ~memories[i].empty
           => LET at == fmt.startOffset + (i - 1) * fmt.channelSize
                  tx == parseField(raw, at, fmt.fields.txTone)
                  rx == parseField(raw, at, fmt.fields.rxTone)
                  ch == memories[i]
              IN CASE tx.mode = "" /\ rx.mode = "" -> ch.tmode = ""
                   [] tx.mode = "CTCSS" /\ rx.mode = "" ->
                          ch.tmode = "Tone" /\ ch.rtone = tx.value
                   [] tx.mode = "CTCSS" /\ rx.mode = "CTCSS" ->
                          /\ ch.tmode = "TSQL"
                          /\ ch.rtone = tx.value
                          /\ ch.ctone = rx.value
                   [] tx.mode = "DCS" /\ rx.mode = "DCS" /\ tx.value = rx.value ->
                          /\ ch.tmode = "DTCS"
                          /\ ch.dtcs = tx.value
                          /\ ch.dtcsPolarity = <<tx.polarity, rx.polarity>>
                   [] OTHER -> ch.tmode = "Cross"

(***************************************************************************)
(* Claims about the transmit frequency and the channel count               *)
(***************************************************************************)
\* Memory.getTxFreq
getTxFreq(mem) ==
    IF mem.duplex = "split" THEN mem.offset
    ELSE IF mem.duplex = "+" THEN mem.freq + mem.offset
    ELSE IF mem.duplex = "-" THEN mem.freq - mem.offset
    ELSE IF mem.duplex = "off" THEN 0
    ELSE mem.freq

\* the bytes of field fieldName of channel slot i (from 1) of an image
FieldOf(image, fmt, i, fieldName) ==
    LET at == fmt.startOffset + (i - 1) * fmt.channelSize + fmt.fields[fieldName].offset
    IN SubSeq(image, at + 1, at + fmt.fields[fieldName].size)

\* C31: for every channel in use the encoder writes at txFreq the derived
\* transmit frequency of the channel: rx for duplex none, rx + offset for
\* plus, rx - offset for minus, the offset itself for split and 0 for off
C31_TxFreqDerived ==
    Encoded
    => \A i \in 1..Len(memories) :
         ~memories[i].empty
         => FieldOf(result, MemoryFormat(cformat), i, "txFreq")
              = serializeField(getTxFreq(memories[i]),
                               MemoryFormat(cformat).fields.txFreq)

\* C32: decoding yields exactly numChannels channel records numbered
\* 1..numChannels; the slots the raw data is too short to hold are present
\* as empty channels
C32_EverySlotPresent ==
    cpc # "raw"
    => /\ Len(memories) = MemoryFormat(cformat).numChannels
       /\ \A i \in 1..Len(memories) : memories[i].number = i
       /\ \A i \in 1..Len(memories) :
            MemoryFormat(cformat).startOffset + i * MemoryFormat(cformat).channelSize
              > Len(raw)
            => memories[i].empty

(***************************************************************************)
(* Claims about the BCD and tone encodings                                 *)
(***************************************************************************)
\* the statement of C33 with the frequency bytes bcd; every shipped format
\* declares rxFreq as bcd of size 4 and unit 10
BcdRoundTrip(bcd) ==
    LET fmt == MemoryFormat(cformat) IN
    /\ cpc # "raw"
       => /\ FieldParsers_bcd(bcd, 0, 4, 10) = 146520000
          /\ \A i \in 1..Len(memories) :
               /\ (i # edited /\ FieldOf(raw, fmt, i, "rxFreq") = bcd)
                  => (~memories[i].empty /\ memories[i].freq = 146520000)
               /\ FieldOf(raw, fmt, i, "rxFreq") = <<255, 255, 255, 255>>
                  => memories[i].empty
    /\ Encoded
       => \A i \in 1..Len(memories) :
            (~memories[i].empty /\ memories[i].freq = 146520000)
            => FieldOf(result, fmt, i, "rxFreq") = bcd
    /\ cpc = "reparsed"
       => \A i \in 1..Len(reparsed) :
            FieldOf(result, fmt, i, "rxFreq") = bcd
            => (~reparsed[i].empty /\ reparsed[i].freq = 146520000)

\* C33 as stated: 146,520,000 Hz encodes to 00 25 56 41, these bytes decode
\* to 146,520,000 Hz, and frequency bytes FF FF FF FF decode as empty
C33_AsStated == BcdRoundTrip(<<0, 37, 86, 65>>)

\* C33: 146,520,000 Hz with bcd size 4 unit 10 encodes to 00 20 65 14 (two
\* decimal digits a byte, least significant byte first), these bytes decode
\* to exactly 146,520,000 Hz, and a slot whose frequency bytes are
\* FF FF FF FF decodes as empty
C33_BcdRoundTrip == BcdRoundTrip(<<0, 32, 101, 20>>)

\* a channel saved with 146.520 MHz next to a slot of FF bytes, encoded and
\* decoded again
C33_Witness ==
    /\ cpc = "reparsed"
    /\ edited # 0
    /\ memories[edited].freq = 146520000
    /\ FieldOf(result, MemoryFormat(cformat), edited, "rxFreq") = <<0, 32, 101, 20>>
    /\ \E i \in 1..Len(memories) :
         /\ FieldOf(raw, MemoryFormat(cformat), i, "rxFreq") = <<255, 255, 255, 255>>
         /\ memories[i].empty

\* C34: a 16-bit little-endian tone value of 0 or 0xFFFF decodes to none; a
\* value with bit 0x8000 set decodes to DCS with the low 12 bits as code and
\* polarity R exactly when bit 0x4000 is set; any other value decodes to
\* CTCSS in 0.1 Hz units; encoding is the inverse on every CTCSS tone and
\* DCS code and polarity: CTCSS 88.5 Hz encodes to 75 03, DCS 023 N to
\* 17 80 and DCS 023 R to 17 C0
C34_ToneCodec ==
    /\ (calc.method = "toneDecode" /\ calc.step # "input")
       => LET word == calc.input[1] + 256 * calc.input[2]
              tone == calc.output
          IN
          /\ word \in {0, 65535} => tone.mode = ""
          /\ (word \notin {0, 65535} /\ BitAnd(word, 32768) # 0)
             => /\ tone.mode = "DCS"
                /\ tone.value = BitAnd(word, 4095)
                /\ tone.polarity = (IF BitAnd(word, 16384) # 0 THEN "R" ELSE "N")
          /\ (word \notin {0, 65535} /\ BitAnd(word, 32768) = 0)
             => (tone.mode = "CTCSS" /\ tone.value = word)
    /\ (calc.method = "toneEncode" /\ calc.step # "input")
       => /\ calc.input = [mode |-> "CTCSS", value |-> 885, polarity |-> ""]
             => calc.output = <<117, 3>>
          /\ calc.input = [mode |-> "DCS", value |-> 23, polarity |-> "N"]
             => calc.output = <<23, 128>>
          /\ calc.input = [mode |-> "DCS", value |-> 23, polarity |-> "R"]
             => calc.output = <<23, 192>>
    /\ (calc.method = "toneEncode" /\ calc.step = "restored")
       => calc.final = calc.input

\* DCS 023 with reversed polarity was encoded to 17 C0 and decoded back
C34_Witness ==
    /\ calc.method = "toneEncode"
    /\ calc.step = "restored"
    /\ calc.input = [mode |-> "DCS", value |-> 23, polarity |-> "R"]
    /\ calc.output = <<23, 192>>
    /\ calc.final = calc.input

(***************************************************************************)
(* Claims about the addresses of a transfer                                *)
(***************************************************************************)
\* the image index (from 0) at which a download stores the byte it read
\* from radio address a: the header first, then the regions in the order
\* they are read
StoredAt(p, ident, a) ==
    LET l == p.memoryLayout
        RECURSIVE inRegions(_, _)
        inRegions(r, before) ==
            IF r > Len(l.regions) THEN -1
            ELSE IF a >= l.regions[r].start
                    /\ a < l.regions[r].start + l.regions[r].size
                 THEN before + (a - l.regions[r].start)
                 ELSE inRegions(r + 1, before + l.regions[r].size)
        header == Len(ImageHeader(p, ident))
    IN
    IF l.regions # << >> THEN inRegions(1, header)
    ELSE IF l.auxStart # 0 /\ l.auxEnd # 0 /\ a >= l.auxStart
         THEN header + (DownloadMainEnd(p) - l.mainStart) + (a - l.auxStart)
         ELSE header + (a - l.mainStart)

\* a download keeps the block it read from address a at StoredAt(a)
DownloadStoresAt ==
    op = "download"
    => \A j \in RequestIndexes(io) :
         LET a == FrameAddress(io[j])
             n == io[j].bytes[4]
             at == StoredAt(protocol, identification, a)
         IN Len(buffer) >= at + n
            => Slice(buffer, at, at + n)
                 \in {WireBlock(pat, a, n), Deobfuscate(protocol, WireBlock(pat, a, n))}

\* an upload sends for address a the image bytes at StoredAt(a), as they
\* are or obfuscated
UploadSendsFrom ==
    op = "upload"
    => \A i \in RequestIndexes(io) :
         LET a == FrameAddress(io[i])
             n == io[i].bytes[4]
             at == StoredAt(protocol, identification, a)
             stored == Slice(data, at, at + n)
         IN /\ at >= Len(ImageHeader(protocol, identification))
            /\ Slice(io[i].bytes, 4, Len(io[i].bytes))
                 \in {stored, Obfuscate(protocol, stored)}

\* C35: upload addresses radio memory as download does: every write frame
\* for radio address a carries the image bytes a download stores for radio
\* address a, and the header bytes of the image are never sent as block data
C35_UploadAddressesAsDownload ==
    /\ DownloadStoresAt
    /\ UploadSendsFrom

\* the regions of the layout as address ranges [start, end), in the order
\* they are transferred
LayoutRanges(p) ==
    LET l == p.memoryLayout IN
    IF l.regions # << >>
    THEN [r \in 1..Len(l.regions) |->
            [start |-> l.regions[r].start,
             end |-> l.regions[r].start + l.regions[r].size]]
    ELSE <<[start |-> l.mainStart, end |-> DownloadMainEnd(p)]>>
         \o (IF l.auxStart # 0 /\ l.auxEnd # 0
             THEN <<[start |-> l.auxStart, end |-> l.auxEnd]>> ELSE << >>)

\* the requests so far walk the ranges: each lies inside one range, the
\* first starts the first range, and every other one starts where the one
\* before it ended or, when that was the end of a range, at the start of
\* the next range
WalksRanges(ranges) ==
    \A j \in RequestIndexes(io) :
      LET a == FrameAddress(io[j])
          n == io[j].bytes[4]
          before == {k \in RequestIndexes(io) : k < j}
      IN
      /\ n > 0
      /\ \E r \in 1..Len(ranges) : ranges[r].start <= a /\ a + n <= ranges[r].end
      /\ IF before = {}
         THEN a = ranges[1].start
         ELSE LET k == CHOOSE k \in before : \A m \in before : m <= k
                  last == FrameAddress(io[k]) + io[k].bytes[4]
              IN \E r \in 1..Len(ranges) :
                   /\ ranges[r].start <= FrameAddress(io[k])
                   /\ last <= ranges[r].end
                   /\ \/ a = last /\ a + n <= ranges[r].end
                      \/ /\ last = ranges[r].end
                         /\ r < Len(ranges)
                         /\ a = ranges[r + 1].start

\* a transfer that ran to its end without an abort or a failed read has
\* reached the end of the last range
CoversRanges(ranges) ==
    (pc = "done" /\ outcome.kind = "ok" /\ ~aborted
       /\ (io # << >> => ~BadRead(Len(io))))
    => \E j \in RequestIndexes(io) :
         /\ \A k \in RequestIndexes(io) : k <= j
         /\ FrameAddress(io[j]) + io[j].bytes[4] = ranges[Len(ranges)].end

\* C36: within one download or one upload the requested block ranges
\* partition each region of the layout: each block address is requested
\* once, in increasing order within a region and regions in declared
\* order, with no gap, no overlap, and no requested range reaching outside
\* its region
C36_BlocksPartitionRegions ==
    /\ WalksRanges(LayoutRanges(protocol))
    /\ CoversRanges(LayoutRanges(protocol))

\* C37: for every descriptor with a memory format the image offset at which
\* channel decoding starts equals the number of header bytes a download
\* puts in front of the image, so channel slot i is decoded from the bytes
\* read from the radio at main.start + i * channelSize
C37_StartOffsetIsHeaderLength ==
    (op = "download" /\ pc = "done" /\ outcome.kind = "ok"
       /\ protocol.memoryFormat # {})
    => LET fmt == MemoryFormat(protocol.modelDef.protocol)
           main == LayoutRanges(protocol)[1]
       IN
       /\ fmt.startOffset = Len(ImageHeader(protocol, identification))
       /\ \A i \in 0..fmt.numChannels - 1 :
            LET at == fmt.startOffset + i * fmt.channelSize
                address == main.start + i * fmt.channelSize
                block == WireBlock(pat, address, fmt.channelSize)
            IN (at + fmt.channelSize <= Len(buffer)
                  /\ address + fmt.channelSize <= main.end)
               => Slice(buffer, at, at + fmt.channelSize)
                    \in {block, Deobfuscate(protocol, block)}

(***************************************************************************)
(* The channel array: RadioImage and the editor's operations on it         *)
(***************************************************************************)
MaxSlots == 3
MaxPaste == 2

\* RadioImage.getMemory: this.memories.get(number) || new Memory(number, true)
getMemory(mems, number) ==
    IF number \in DOMAIN mems THEN mems[number] ELSE Memory(number)

\* RadioImage.setMemory: this.memories.set(memory.number, memory)
setMemory(mems, memory) == (memory.number :> memory) @@ mems

\* new RadioImage(name, MaxSlots): every location holds an empty Memory
ImageInit ==
    /\ EngineIdle
    /\ CodecIdle
    /\ calc = [method |-> "", input |-> << >>,
               options |-> [symbolIndex |-> 0, valxor |-> 0, offset |-> 0,
                            start |-> 0, stop |-> 0, address |-> 0],
               output |-> << >>, final |-> << >>, valid |-> FALSE,
               step |-> "idle"]
    /\ serial = [length |-> 0, buf |-> << >>, returned |-> << >>, sent |-> 0,
                 step |-> "closed"]
    /\ app = [serialConnection |-> 0,
              at |-> [s \in 1..2 |-> "idle"],
              conn |-> [s \in 1..2 |-> [port |-> 0, connected |-> FALSE]],
              clone |-> [s \in 1..2 |-> 0],
              ports |-> [q \in 1..2 |-> "closed"],
              wire |-> << >>]
    /\ currentImage = [memoryBounds |-> <<1, MaxSlots>>,
                       memories |-> [n \in 1..MaxSlots |-> Memory(n)],
                       before |-> [n \in 1..MaxSlots |-> Memory(n)],
                       last |-> [op |-> "", memory |-> << >>, from |-> 0,
                                 to |-> 0, error |-> FALSE]]

\* saveEditDialog: the channel of a row of the grid is cloned, given the
\* values of the form and stored with setMemory
EditSave ==
    /\ \E location \in currentImage.memoryBounds[1]..currentImage.memoryBounds[2],
          e \in {x \in EditInputs : x.duplex # "off"} :
         LET mems == currentImage.memories
             mem == [getMemory(mems, location) EXCEPT
                       !.name = e.name, !.freq = e.freq, !.duplex = e.duplex,
                       !.offset = e.offset, !.tmode = e.tmode, !.rtone = e.rtone,
                       !.ctone = e.ctone, !.dtcs = e.dtcs, !.mode = Str(e.mode),
                       !.skip = e.skip, !.power = Str(e.power),
                       !.empty = (e.freq = 0)]
         IN currentImage' =
              [currentImage EXCEPT
                 !.memories = setMemory(mems, mem),
                 !.before = mems,
                 !.last = [op |-> "setMemory", memory |-> <<mem>>, from |-> 0,
                           to |-> location, error |-> FALSE]]
    /\ EngineUnchanged
    /\ UNCHANGED <<codecVars, calc, serial, app>>

\* deleteSelected: deleteMemory(num) for every selected row of the grid
DeleteSelected ==
    /\ \E selectedRows \in SUBSET (currentImage.memoryBounds[1]
                                    ..currentImage.memoryBounds[2]) :
         LET mems == currentImage.memories IN
         /\ selectedRows # {}
         /\ currentImage' =
              [currentImage EXCEPT
                 !.memories = [k \in DOMAIN mems \cup selectedRows |->
                                 IF k \in selectedRows THEN Memory(k) ELSE mems[k]],
                 !.before = mems,
                 !.last = [op |-> "deleteMemory", memory |-> << >>, from |-> 0,
                           to |-> 0, error |-> FALSE]]
    /\ EngineUnchanged
    /\ UNCHANGED <<codecVars, calc, serial, app>>

\* RadioImage.moveMemory(fromNumber, toNumber)
MoveMemory ==
    /\ \E fromNumber, toNumber \in currentImage.memoryBounds[1]
                                   ..currentImage.memoryBounds[2] :
         LET mems == currentImage.memories
             fromMem == getMemory(mems, fromNumber)
             newMem == [fromMem EXCEPT !.number = toNumber]
         IN currentImage' =
              [currentImage EXCEPT
                 !.memories = IF fromMem.empty THEN mems
                              ELSE setMemory(setMemory(mems, newMem),
                                             Memory(fromNumber)),
                 !.before = mems,
                 !.last = [op |-> "moveMemory", memory |-> << >>,
                           from |-> fromNumber, to |-> toNumber,
                           error |-> fromMem.empty]]
    /\ EngineUnchanged
    /\ UNCHANGED <<codecVars, calc, serial, app>>

\* RadioImage.insertMemory(memory, atNumber)
InsertMemory ==
    /\ \E atNumber \in currentImage.memoryBounds[1]..currentImage.memoryBounds[2],
          e \in {x \in EditInputs : x.duplex # "off"} :
         LET mems == currentImage.memories
             hi == currentImage.memoryBounds[2]
             memory == [Memory(0) EXCEPT
                          !.name = e.name, !.freq = e.freq, !.duplex = e.duplex,
                          !.offset = e.offset, !.tmode = e.tmode,
                          !.rtone = e.rtone, !.ctone = e.ctone, !.dtcs = e.dtcs,
                          !.mode = Str(e.mode), !.skip = e.skip,
                          !.power = Str(e.power), !.empty = FALSE]
             RECURSIVE shift(_, _)
             shift(m, i) ==
                 IF i < atNumber THEN m
                 ELSE LET mem == getMemory(m, i) IN
                      shift(IF ~mem.empty
                            THEN setMemory(m, [mem EXCEPT !.number = i + 1])
                            ELSE m,
                            i - 1)
         IN currentImage' =
              [currentImage EXCEPT
                 !.memories = setMemory(shift(mems, hi - 1),
                                        [memory EXCEPT !.number = atNumber]),
                 !.before = mems,
                 !.last = [op |-> "insertMemory", memory |-> <<memory>>,
                           from |-> 0, to |-> atNumber, error |-> FALSE]]
    /\ EngineUnchanged
    /\ UNCHANGED <<codecVars, calc, serial, app>>

\* copy and paste: the channels in use among up to MaxPaste selected rows go
\* to the clipboard and are stored from the topmost selected row on
Paste ==
    /\ \E first \in currentImage.memoryBounds[1]..currentImage.memoryBounds[2],
          count \in 1..MaxPaste,
          startLoc \in currentImage.memoryBounds[1]..currentImage.memoryBounds[2] :
         LET mems == currentImage.memories
             rows == [i \in 1..Min(count, currentImage.memoryBounds[2] - first + 1)
                        |-> getMemory(mems, first + i - 1)]
             clipboard == SelectSeq(rows, LAMBDA mem : ~mem.empty)
             pasted == startLoc..startLoc + Len(clipboard) - 1
         IN
         /\ Len(clipboard) # 0
         /\ currentImage' =
              [currentImage EXCEPT
                 !.memories = [k \in DOMAIN mems \cup pasted |->
                                 IF k \in pasted
                                 THEN [clipboard[k - startLoc + 1] EXCEPT !.number = k]
                                 ELSE mems[k]],
                 !.before = mems,
                 !.last = [op |-> "paste", memory |-> << >>, from |-> first,
                           to |-> startLoc, error |-> FALSE]]
    /\ EngineUnchanged
    /\ UNCHANGED <<codecVars, calc, serial, app>>

\* importFile: the channels in use of the imported image are stored after
\* the last channel in use of the full-array view
ImportFile ==
    /\ \E count \in 1..MaxPaste, e \in {x \in EditInputs : x.duplex # "off"} :
         LET mems == currentImage.memories
             used == {n \in currentImage.memoryBounds[1]..currentImage.memoryBounds[2] :
                        ~getMemory(mems, n).empty}
             nextSlot == IF used = {} THEN 1
                         ELSE 1 + CHOOSE n \in used : \A k \in used : k <= n
             imported == nextSlot..nextSlot + count - 1
             mem == [Memory(0) EXCEPT
                       !.name = e.name, !.freq = e.freq, !.duplex = e.duplex,
                       !.offset = e.offset, !.tmode = e.tmode,
                       !.rtone = e.rtone, !.ctone = e.ctone, !.dtcs = e.dtcs,
                       !.mode = Str(e.mode), !.skip = e.skip,
                       !.power = Str(e.power), !.empty = FALSE]
         IN currentImage' =
              [currentImage EXCEPT
                 !.memories = [k \in DOMAIN mems \cup imported |->
                                 IF k \in imported THEN [mem EXCEPT !.number = k]
                                 ELSE mems[k]],
                 !.before = mems,
                 !.last = [op |-> "import", memory |-> << >>, from |-> 0,
                           to |-> nextSlot, error |-> FALSE]]
    /\ EngineUnchanged
    /\ UNCHANGED <<codecVars, calc, serial, app>>

ImageNext ==
    \/ EditSave
    \/ DeleteSelected
    \/ MoveMemory
    \/ InsertMemory
    \/ Paste
    \/ ImportFile

ImageSpec == ImageInit /\ [][ImageNext]_vars

(***************************************************************************)
(* Claims about the channel array                                          *)
(***************************************************************************)
\* C38: after any sequence of setMemory, deleteMemory, moveMemory,
\* insertMemory, paste and import every channel stored in the image has a
\* number within [lo, hi] and every number in [lo, hi] yields a slot, so no
\* stored channel is left out of the full-array view (getAllMemories)
C38_DenseBoundedSlots ==
    LET lo == currentImage.memoryBounds[1]
        hi == currentImage.memoryBounds[2]
        stored == currentImage.memories
        all == [n \in lo..hi |-> getMemory(stored, n)]
    IN
    lo <= hi
    => /\ \A k \in DOMAIN stored :
            stored[k].number = k /\ k >= lo /\ k <= hi
       /\ \A n \in lo..hi : all[n].number = n
       /\ \A k \in DOMAIN stored :
            ~stored[k].empty => \E n \in lo..hi : all[n] = stored[k]

\* C39: insertMemory(m, at) puts m into slot at and moves the previous
\* content of every slot k in [at, hi - 1] to slot k + 1, empty slots
\* included, while the slots below at are unchanged
C39_InsertShifts ==
    currentImage.last.op = "insertMemory"
    => LET at == currentImage.last.to
           hi == currentImage.memoryBounds[2]
           was(k) == getMemory(currentImage.before, k)
           now(k) == getMemory(currentImage.memories, k)
       IN
       /\ now(at) = [currentImage.last.memory[1] EXCEPT !.number = at]
       /\ \A k \in at..hi - 1 : now(k + 1) = [was(k) EXCEPT !.number = k + 1]
       /\ \A k \in currentImage.memoryBounds[1]..at - 1 : now(k) = was(k)

\* C40: moveMemory(from, to) on a source in use leaves the source channel's
\* field values in slot to, renumbered to, and slot from empty when from
\* differs from to; when from equals to the channel is unchanged; on an
\* empty source it raises an error and changes nothing
C40_MoveMemory ==
    currentImage.last.op = "moveMemory"
    => LET from == currentImage.last.from
           to == currentImage.last.to
           was(k) == getMemory(currentImage.before, k)
           now(k) == getMemory(currentImage.memories, k)
       IN
       IF was(from).empty
       THEN /\ currentImage.last.error
            /\ currentImage.memories = currentImage.before
       ELSE /\ ~currentImage.last.error
            /\ now(to) = [was(from) EXCEPT !.number = to]
            /\ from # to => now(from).empty
            /\ from = to => currentImage.memories = currentImage.before

====
